---- MODULE Spec2Model ----
(***************************************************************************)
(* Model of the Invocation Engine of aws-test-helpers:                     *)
(* LambdaHelper.invokeLambda and the context built by                      *)
(* LambdaHelper.#createContext.                                            *)
(*                                                                         *)
(* One behaviour is one call of invokeLambda.  The handler is the          *)
(* environment: during its synchronous body and from later tasks it may    *)
(* call the completion callback and the legacy context methods, and it     *)
(* ends its synchronous body by throwing, by returning a plain value or by *)
(* returning a Promise that later resolves or rejects.  JavaScript runs    *)
(* each task to completion, so the timer callback and the continuation of  *)
(* `await promise` run only after the synchronous part of invokeLambda.    *)
(* Time is abstracted to the order of events: the timer expiring is the    *)
(* step in which its callback runs.                                        *)
(***************************************************************************)
EXTENDS Integers, Sequences, FiniteSets, TLC

(***************************************************************************)
(* JavaScript values that the code distinguishes.                          *)
(***************************************************************************)
JsUndefined == "<undefined>"
JsNull == "<null>"
EmptyString == ""
ErrorObject == "<Error>"
ResultValue == "<result>"
\* the string literal used by the timer callback and by the result mapping
TimeoutSentinel == "lambda-helper-timeout"

\* values a handler may pass as an error, throw, or reject with
ErrorValues == {JsUndefined, JsNull, EmptyString, ErrorObject, TimeoutSentinel}
\* values a handler may pass as a result, return, or resolve with
\* (results are plain data: a result that is itself a thenable is not modelled)
ResultValues == {JsUndefined, ResultValue}

\* JavaScript truthiness, as tested by `if (error)`
Truthy(v) == v \notin {JsUndefined, JsNull, EmptyString}

\* number of callback / context-method calls a handler makes in one invocation
MaxSignals == 2

NoSignal == [mech |-> "none", error |-> JsUndefined, result |-> JsUndefined]
NoOutput == [kind |-> "none"]

VARIABLES
    pc,              \* position of invokeLambda
    promise,         \* `promise`: [state, value]
    promiseSettled,  \* `promiseSettled`
    timeoutId,       \* `timeoutId`: "Timeout" handle or "null"
    timerPending,    \* the event loop still holds the timer of setTimeout
    returned,        \* how the handler's synchronous body ended
    output,          \* the value invokeLambda resolved with
    first,           \* history: the first completion signal that occurred
    nsig             \* history: number of callback / context-method calls

\* the variables of one invokeLambda call
invokeVars == <<pc, promise, promiseSettled, timeoutId, timerPending, returned,
                output, first, nsig>>

(***************************************************************************)
(* The queue service and SqsHelper.getMessages.                            *)
(***************************************************************************)
VARIABLES
    queue,           \* service: ids of the messages in the queue
    sent,            \* service: number of messages sent so far (ids 1..sent)
    gmPc,            \* position of getMessages
    batchSize,       \* input.batchSize (NoBatch when undefined)
    keep,            \* input.keep
    abortSignal,     \* input.abortSignal: "none", "active" or "aborted"
    messages,        \* `messages`: the accumulated batch
    res,             \* `res.Messages ?? []` of the last receive
    request,         \* the request of the send in flight / last issued
    gmError,         \* name of the error getMessages rejected with
    gmHist,          \* history of the current call and of the calls made
    gmQueueUrl       \* input.queueUrl

gmVars == <<queue, sent, gmPc, batchSize, keep, abortSignal, messages, res,
            request, gmError, gmHist, gmQueueUrl>>

(***************************************************************************)
(* The queue service and SqsHelper.upsertQueue.                            *)
(***************************************************************************)
VARIABLES
    queues,          \* service: queue name -> stored attributes or NoQueue
    uqPc,            \* position of upsertQueue
    command,         \* input.command.input: [QueueName, Attributes]
    force,           \* input.force
    queueUrl,        \* `queueUrl`
    uqError,         \* name of the error upsertQueue rejected with
    uqHist           \* history of the current call and of the previous call

uqVars == <<queues, uqPc, command, force, queueUrl, uqError, uqHist>>

(***************************************************************************)
(* SqsHelper.clearSqsQueue (on the queue of the getMessages model).        *)
(***************************************************************************)
VARIABLES
    cqPc,            \* position of clearSqsQueue
    purge,           \* input.purge
    cqRes,           \* `res.Messages ?? []` of the last receive
    cqRequest,       \* the request of the send in flight / last issued
    cqError,         \* name of the error clearSqsQueue rejected with
    cqHist           \* history of the current call

cqVars == <<cqPc, purge, cqRes, cqRequest, cqError, cqHist>>

(***************************************************************************)
(* SqsHelper.#clients and the operations that call SqsHelper.#getClient.   *)
(***************************************************************************)
VARIABLES
    clients,         \* `#clients`: endpoint -> SQSClient (NoClient if absent)
    ops,             \* per caller: the SqsHelper operation it has in flight
    ccHist           \* history: constructed clients, operations started

ccVars == <<clients, ops, ccHist>>

(***************************************************************************)
(* SqsLambdaHelper.runSqsLambda.                                           *)
(***************************************************************************)
VARIABLES
    rlPc,            \* position of runSqsLambda
    rlQueue,         \* input.queue: by name or by url
    rlBatchSize,     \* input.batchSize
    rlQueueUrl,      \* `queueUrl`
    rlError,         \* name of the error runSqsLambda rejected with
    logged,          \* the last call the logger received for an invocation
    rlEvent,         \* the event of the last invokeLambda call of the run
    lateHandler,     \* handler code of a returned invokeLambda still executes
    rlHist           \* history of the run

rlVars == <<rlPc, rlQueue, rlBatchSize, rlQueueUrl, rlError, logged, rlEvent,
            lateHandler, rlHist>>

(***************************************************************************)
(* SqsLambdaHelper.toSqsEvent and the environment it reads.                *)
(***************************************************************************)
VARIABLES
    AWS_REGION,      \* process.env.AWS_REGION (NoEnv when unset)
    evPc,            \* position of a toSqsEvent call
    evInput,         \* `input`: [messages, account, queueName, region]
    evOutput         \* the value toSqsEvent returned

evVars == <<AWS_REGION, evPc, evInput, evOutput>>

(***************************************************************************)
(* The context of LambdaHelper.#createContext and the clock it reads.      *)
(***************************************************************************)
VARIABLES
    dateNow,         \* Date.now(): the wall clock, in milliseconds
    now,             \* `now`: Date.now() when the context was created
    ctTimeout,       \* input.timeout, in seconds
    ctHist           \* history: results of getRemainingTimeInMillis

ctVars == <<dateNow, now, ctTimeout, ctHist>>

sqsVars == <<gmVars, uqVars, cqVars, ccVars, rlVars, evVars, ctVars>>

vars == <<invokeVars, gmVars, uqVars, cqVars, ccVars, rlVars, evVars, ctVars>>

Pending == [state |-> "pending", value |-> JsUndefined]

\* the variables captured by the closures resolve / reject
Closure ==
    [promise |-> promise, promiseSettled |-> promiseSettled,
     timeoutId |-> timeoutId, timerPending |-> timerPending]

SetClosure(s) ==
    /\ promise' = s.promise
    /\ promiseSettled' = s.promiseSettled
    /\ timeoutId' = s.timeoutId
    /\ timerPending' = s.timerPending

\* variant of ClearTimer that forgets clearTimeout: only the variable is reset
ClearTimer_KeepsTimer(s) ==
    IF s.timeoutId # "null"
    THEN [s EXCEPT !.timeoutId = "null"]
    ELSE s

\* if (timeoutId) { clearTimeout(timeoutId); timeoutId = null; }
ClearTimer(s) ==
    IF s.timeoutId # "null"
    THEN [s EXCEPT !.timerPending = FALSE, !.timeoutId = "null"]
    ELSE s

\* variant of resolve without the promiseSettled guard: the last writer wins
resolve_Unguarded(s, result) ==
    [ClearTimer(s) EXCEPT !.promise = [state |-> "fulfilled", value |-> result],
                          !.promiseSettled = TRUE]

\* resolve = (result) => { ... }
resolve(s, result) ==
    LET c == ClearTimer(s) IN
    IF ~c.promiseSettled
    THEN [c EXCEPT !.promise = [state |-> "fulfilled", value |-> result],
                   !.promiseSettled = TRUE]
    ELSE c

\* reject = (error) => { ... }
reject(s, error) ==
    LET c == ClearTimer(s) IN
    IF ~c.promiseSettled
    THEN [c EXCEPT !.promise = [state |-> "rejected", value |-> error],
                   !.promiseSettled = TRUE]
    ELSE c

\* const callback = (error, result) => { if (error) reject(error) else resolve(result) }
callback(s, error, result) ==
    IF Truthy(error) THEN reject(s, error) ELSE resolve(s, result)

\* context.done(error, result)
done(s, error, result) == callback(s, error, result)

\* context.fail(error): callback(error), the result parameter is undefined
fail(s, error) == callback(s, error, JsUndefined)

\* context.succeed(result): callback(null, result)
succeed(s, result) == callback(s, JsNull, result)

\* the value invokeLambda resolves with once `await promise` completes
ToOutput(p) ==
    IF p.state = "fulfilled"
    THEN [kind |-> "returned", success |-> TRUE, result |-> p.value]
    ELSE [kind |-> "returned", success |-> FALSE,
          error |-> IF p.value # TimeoutSentinel THEN p.value ELSE JsUndefined,
          timeout |-> (p.value = TimeoutSentinel)]

\* history of the first completion signal
Record(mech, error, result) ==
    first' = IF first = NoSignal
             THEN [mech |-> mech, error |-> error, result |-> result]
             ELSE first

(***************************************************************************)
(* SqsHelper.getMessages against the queue service.                        *)
(*                                                                         *)
(* The service is the environment.  Every receive is made with             *)
(* VisibilityTimeout 0, so a received message stays visible; the service   *)
(* hands out the k oldest messages of the queue, for any k up to the       *)
(* requested maximum (a long poll on a non-empty queue returns at least    *)
(* one).  A send of the client made with an aborted signal, or whose       *)
(* signal is aborted while it is in flight, rejects with AbortError.       *)
(***************************************************************************)
QueueNames == {"orders", "events"}

\* the URL the service gives to a queue name
UrlOf(name) == <<"http://sqs/000000000000", name>>
UnsetUrl == <<"unset", "unset">>

\* messages ever sent to the queue in one behaviour
MaxMessages == 3
\* calls of getMessages in one behaviour
MaxGetCalls == 2

\* `10` is the max value of MaxNumberOfMessages
MaxPerReceive == 10
\* `20s` is the max value of WaitTimeSeconds
LongPollSeconds == 20

Undefined == [given |-> FALSE, value |-> 0]
Given(n) == [given |-> TRUE, value |-> n]

\* the batch sizes a caller passes: none, invalid ones, small ones and one
\* above the protocol cap
BatchSizes == {Undefined, Given(-1), Given(0), Given(1), Given(2), Given(11)}

NoRequest == [op |-> "none"]

Min(a, b) == IF a < b THEN a ELSE b

RECURSIVE SetToSeq(_)
SetToSeq(S) ==
    IF S = {} THEN <<>>
    ELSE LET m == CHOOSE x \in S : \A y \in S : x <= y
         IN <<m>> \o SetToSeq(S \ {m})

SeqToSet(q) == {q[i] : i \in 1..Len(q)}

\* the k oldest messages of the queue
Oldest(q, k) == SetToSeq({i \in q : Cardinality({j \in q : j < i}) < k})

\* variant of ValidBatchSize with an off-by-one test (batchSize < 0)
ValidBatchSize_OffByOne(b) == ~(b.given /\ b.value < 0)

\* if (batchSize !== undefined && batchSize < 1) throw new Error(...)
ValidBatchSize(b) == ~(b.given /\ b.value < 1)

\* variant of MaxNumberOfMessages without the protocol cap
MaxNumberOfMessages_Uncapped(b, len) ==
    IF ~b.given THEN MaxPerReceive ELSE b.value - len

\* batchSize === undefined ? 10 : Math.min(10, batchSize - messages.length)
MaxNumberOfMessages(b, len) ==
    IF ~b.given THEN MaxPerReceive ELSE Min(MaxPerReceive, b.value - len)

\* variant of WaitTimeSeconds that always short-polls
WaitTimeSeconds_Short(b) == 0

\* batchSize ? 20 : 0
WaitTimeSeconds(b) == IF b.given /\ b.value # 0 THEN LongPollSeconds ELSE 0

\* new ReceiveMessageCommand({ MaxNumberOfMessages, QueueUrl, VisibilityTimeout, WaitTimeSeconds })
ReceiveMessageCommand(b, len, url) ==
    [op |-> "ReceiveMessage",
     MaxNumberOfMessages |-> MaxNumberOfMessages(b, len),
     QueueUrl |-> url,
     VisibilityTimeout |-> 0,
     WaitTimeSeconds |-> WaitTimeSeconds(b)]

\* variant of DeleteMessageBatchCommand that misses the last received message
DeleteMessageBatchCommand_MissesLast(r, url) ==
    [op |-> "DeleteMessageBatch", QueueUrl |-> url,
     Entries |-> SubSeq(r, 1, Len(r) - 1)]

\* new DeleteMessageBatchCommand({ QueueUrl, Entries: res.Messages.map(...) })
DeleteMessageBatchCommand(r, url) ==
    [op |-> "DeleteMessageBatch", QueueUrl |-> url, Entries |-> r]

\* if (res.Messages?.length && !keep)
MustDelete(r, k) == Len(r) > 0 /\ ~k

\* variant of LoopAgain that never repeats the receive
LoopAgain_Never(b, len) == FALSE

\* while (batchSize !== undefined && messages.length < batchSize)
LoopAgain(b, len) == b.given /\ len < b.value

\* saturating count of requests (0, 1, 2 = two or more)
CountUp(n) == IF n < 2 THEN n + 1 ELSE n

NoGmHist ==
    [calls |-> 0, receives |-> 0, deletes |-> 0, abortedInFlight |-> FALSE]

\* no call of getMessages yet; the queue holds the n messages sent so far
GmIdleWith(n) ==
    /\ queue = 1..n
    /\ sent = n
    /\ gmPc = "idle"
    /\ batchSize = Undefined
    /\ keep = FALSE
    /\ abortSignal = "none"
    /\ messages = <<>>
    /\ res = <<>>
    /\ request = NoRequest
    /\ gmError = "none"
    /\ gmHist = NoGmHist
    /\ gmQueueUrl = UnsetUrl

GmIdle == GmIdleWith(0)

InFlight == gmPc \in {"receiving", "deleting"}

\* what a step of getMessages and of the queue service leaves alone
GmFrame == UNCHANGED <<invokeVars, uqVars, cqVars, ccVars, rlVars, evVars, ctVars>>

\* variant of SendOptions that does not hand the signal to the send
SendOptions_NoSignal(sig) == "none"

\* client.send(command, { abortSignal }): the signal the send observes
SendOptions(sig) == sig

\* getMessages up to the first await: the validation, then the first receive
\* of the do/while loop
getMessages(b, k, sig, url) ==
    /\ batchSize' = b
    /\ keep' = k
    /\ abortSignal' = sig
    /\ gmQueueUrl' = url
    /\ IF ValidBatchSize(b)
       THEN /\ gmPc' = "receiving"
            /\ request' = ReceiveMessageCommand(b, 0, url)
            /\ gmError' = "none"
            /\ gmHist' = [calls |-> gmHist.calls + 1, receives |-> 1,
                          deletes |-> 0, abortedInFlight |-> FALSE]
       ELSE /\ gmPc' = "rejected"
            /\ request' = NoRequest
            /\ gmError' = "Error"
            /\ gmHist' = [calls |-> gmHist.calls + 1, receives |-> 0,
                          deletes |-> 0, abortedInFlight |-> FALSE]
    /\ messages' = <<>>
    /\ res' = <<>>
    /\ UNCHANGED <<queue, sent>>

\* a test calls getMessages on the queue
GetMessages ==
    /\ gmPc \in {"idle", "returned", "rejected"}
    /\ gmHist.calls < MaxGetCalls
    /\ \E b \in BatchSizes, k \in BOOLEAN, sig \in {"none", "active", "aborted"} :
          getMessages(b, k, sig, UrlOf("orders"))
    /\ GmFrame

\* messages.push(...received); then the loop test: receive again or return
PushAndLoop(received) ==
    /\ messages' = messages \o received
    /\ IF LoopAgain(batchSize, Len(messages \o received))
       THEN /\ gmPc' = "receiving"
            /\ request' = ReceiveMessageCommand(batchSize, Len(messages \o received),
                                                gmQueueUrl)
            /\ gmHist' = [gmHist EXCEPT !.receives = CountUp(@)]
       ELSE /\ gmPc' = "returned"
            /\ request' = request
            /\ gmHist' = gmHist

\* the receive in flight returns; receiveMessages goes on to the delete or
\* returns res.Messages ?? []
ReceiveCompletes ==
    /\ gmPc = "receiving"
    /\ SendOptions(abortSignal) # "aborted"
    /\ \E k \in (IF request.WaitTimeSeconds > 0 /\ queue # {} THEN 1 ELSE 0)
                 .. Min(request.MaxNumberOfMessages, Cardinality(queue)) :
          LET r == Oldest(queue, k) IN
          /\ res' = r
          /\ IF MustDelete(r, keep)
             THEN /\ gmPc' = "deleting"
                  /\ request' = DeleteMessageBatchCommand(r, gmQueueUrl)
                  /\ gmHist' = [gmHist EXCEPT !.deletes = CountUp(@)]
                  /\ messages' = messages
             ELSE PushAndLoop(r)
    /\ UNCHANGED <<queue, sent, batchSize, keep, gmQueueUrl, abortSignal, gmError>>
    /\ GmFrame

\* the delete in flight returns
DeleteCompletes ==
    /\ gmPc = "deleting"
    /\ SendOptions(abortSignal) # "aborted"
    /\ queue' = queue \ SeqToSet(request.Entries)
    /\ PushAndLoop(res)
    /\ UNCHANGED <<sent, batchSize, keep, gmQueueUrl, abortSignal, res, gmError>>
    /\ GmFrame

\* the send in flight rejects with an error of the service or the network;
\* a failed delete may or may not have been applied
SendFails ==
    /\ InFlight
    /\ SendOptions(abortSignal) # "aborted"
    /\ gmPc' = "rejected"
    /\ gmError' = "ServiceError"
    /\ \/ queue' = queue
       \/ gmPc = "deleting" /\ queue' = queue \ SeqToSet(request.Entries)
    /\ UNCHANGED <<sent, batchSize, keep, gmQueueUrl, abortSignal, messages, res, request,
                   gmHist>>
    /\ GmFrame

\* the send in flight observes the aborted signal and rejects with AbortError
SendAborts ==
    /\ InFlight
    /\ SendOptions(abortSignal) = "aborted"
    /\ gmPc' = "rejected"
    /\ gmError' = "AbortError"
    /\ \/ queue' = queue
       \/ gmPc = "deleting" /\ queue' = queue \ SeqToSet(request.Entries)
    /\ UNCHANGED <<sent, batchSize, keep, gmQueueUrl, abortSignal, messages, res, request,
                   gmHist>>
    /\ GmFrame

\* the caller triggers the abort signal while the call is in flight
Abort ==
    /\ InFlight
    /\ abortSignal = "active"
    /\ abortSignal' = "aborted"
    /\ gmHist' = [gmHist EXCEPT !.abortedInFlight = TRUE]
    /\ UNCHANGED <<queue, sent, gmPc, batchSize, keep, gmQueueUrl, messages, res, request,
                   gmError>>
    /\ GmFrame

\* another client sends a message to the queue
SendMessage ==
    /\ sent < MaxMessages
    /\ sent' = sent + 1
    /\ queue' = queue \cup {sent + 1}
    /\ UNCHANGED <<gmPc, batchSize, keep, gmQueueUrl, abortSignal, messages, res, request,
                   gmError, gmHist>>
    /\ GmFrame

(***************************************************************************)
(* SqsHelper.clearSqsQueue against the queue service.                      *)
(*                                                                         *)
(* The receives of clearSqsQueue are short polls: the service may answer   *)
(* with fewer messages than the queue holds, and with none.  The caller    *)
(* runs clearSqsQueue and getMessages one after the other, as the tests    *)
(* do.                                                                     *)
(***************************************************************************)
\* calls of clearSqsQueue in one behaviour
MaxClearCalls == 2
\* messages the queue may hold before the first call of clearSqsQueue
MaxQueued == 11

\* variant of UsePurge that never purges
UsePurge_Never(p) == FALSE

\* if (purge)
UsePurge(p) == p

\* new PurgeQueueCommand({ QueueUrl: queueUrl })
PurgeQueueCommand(url) == [op |-> "PurgeQueue", QueueUrl |-> url]

\* new ReceiveMessageCommand({ MaxNumberOfMessages: 10, QueueUrl, WaitTimeSeconds: 0 })
ClearReceiveCommand(url) ==
    [op |-> "ReceiveMessage",
     MaxNumberOfMessages |-> MaxPerReceive,
     QueueUrl |-> url,
     WaitTimeSeconds |-> 0]

\* variant of ClearAgain that stops after the first receive
ClearAgain_Never(r) == FALSE

\* while (res.Messages?.length)
ClearAgain(r) == Len(r) > 0

\* if (res.Messages?.length)
ClearMustDelete(r) == Len(r) > 0

NoCqHist ==
    [calls |-> 0, purges |-> 0, receives |-> 0, deletes |-> 0,
     sentAtStart |-> 0, queueAtStart |-> {}, received |-> {},
     followed |-> FALSE]

CqIdle ==
    /\ cqPc = "idle"
    /\ purge = FALSE
    /\ cqRes = <<>>
    /\ cqRequest = NoRequest
    /\ cqError = "none"
    /\ cqHist = NoCqHist

\* the variables of the getMessages model other than the queue
gmCallVars == <<sent, gmPc, batchSize, keep, abortSignal, messages, res,
                request, gmError, gmHist, gmQueueUrl>>

CqFrame == UNCHANGED <<invokeVars, uqVars, ccVars, rlVars, evVars, ctVars>>

\* clearSqsQueue up to the first await: the purge or the first receive
ClearSqsQueue ==
    /\ cqPc \in {"idle", "returned", "rejected"}
    /\ ~InFlight
    /\ cqHist.calls < MaxClearCalls
    /\ \E p \in BOOLEAN :
          /\ purge' = p
          /\ IF UsePurge(p)
             THEN /\ cqPc' = "purging"
                  /\ cqRequest' = PurgeQueueCommand(UrlOf("orders"))
                  /\ cqHist' = [calls |-> cqHist.calls + 1, purges |-> 1,
                                receives |-> 0, deletes |-> 0,
                                sentAtStart |-> sent, queueAtStart |-> queue,
                                received |-> {}, followed |-> FALSE]
             ELSE /\ cqPc' = "receiving"
                  /\ cqRequest' = ClearReceiveCommand(UrlOf("orders"))
                  /\ cqHist' = [calls |-> cqHist.calls + 1, purges |-> 0,
                                receives |-> 1, deletes |-> 0,
                                sentAtStart |-> sent, queueAtStart |-> queue,
                                received |-> {}, followed |-> FALSE]
    /\ cqRes' = <<>>
    /\ cqError' = "none"
    /\ UNCHANGED <<queue, gmCallVars>>
    /\ CqFrame

\* the loop test of clearSqsQueue: receive again or return
ClearLoop(r) ==
    IF ClearAgain(r)
    THEN /\ cqPc' = "receiving"
         /\ cqRequest' = ClearReceiveCommand(UrlOf("orders"))
         /\ cqHist' = [cqHist EXCEPT !.receives = CountUp(@)]
    ELSE /\ cqPc' = "returned"
         /\ cqRequest' = cqRequest
         /\ cqHist' = cqHist

\* the PurgeQueue in flight returns
PurgeCompletes ==
    /\ cqPc = "purging"
    /\ queue' = {}
    /\ cqPc' = "returned"
    /\ UNCHANGED <<purge, cqRes, cqRequest, cqError, cqHist, gmCallVars>>
    /\ CqFrame

\* the receive in flight returns: the delete of its messages, or the loop test
ClearReceiveCompletes ==
    /\ cqPc = "receiving"
    /\ \E k \in 0 .. Min(cqRequest.MaxNumberOfMessages, Cardinality(queue)) :
          LET r == Oldest(queue, k) IN
          /\ cqRes' = r
          /\ IF ClearMustDelete(r)
             THEN /\ cqPc' = "deleting"
                  /\ cqRequest' = DeleteMessageBatchCommand(r, UrlOf("orders"))
                  /\ cqHist' = [cqHist EXCEPT !.deletes = CountUp(@),
                                              !.received = @ \cup SeqToSet(r)]
             ELSE ClearLoop(r)
    /\ UNCHANGED <<purge, cqError, queue, gmCallVars>>
    /\ CqFrame

\* the delete in flight returns; then the loop test
ClearDeleteCompletes ==
    /\ cqPc = "deleting"
    /\ queue' = queue \ SeqToSet(cqRequest.Entries)
    /\ ClearLoop(cqRes)
    /\ UNCHANGED <<purge, cqRes, cqError, gmCallVars>>
    /\ CqFrame

\* the send in flight fails with an error of the service or the network; a
\* failed purge or delete may or may not have been applied
ClearSendFails ==
    /\ cqPc \in {"purging", "receiving", "deleting"}
    /\ cqPc' = "rejected"
    /\ cqError' = "ServiceError"
    /\ \/ queue' = queue
       \/ cqPc = "deleting" /\ queue' = queue \ SeqToSet(cqRequest.Entries)
       \/ cqPc = "purging" /\ queue' = {}
    /\ UNCHANGED <<purge, cqRes, cqRequest, cqHist, gmCallVars>>
    /\ CqFrame

\* after clearSqsQueue returned the caller calls getMessages({ endpoint, queueUrl })
GetMessagesAfterClear ==
    /\ cqPc = "returned"
    /\ gmPc \in {"idle", "returned", "rejected"}
    /\ ~cqHist.followed
    /\ getMessages(Undefined, FALSE, "none", UrlOf("orders"))
    /\ cqHist' = [cqHist EXCEPT !.followed = TRUE]
    /\ UNCHANGED <<cqPc, purge, cqRes, cqRequest, cqError>>
    /\ CqFrame

(***************************************************************************)
(* SqsHelper.#getClient and the cache SqsHelper.#clients.                  *)
(*                                                                         *)
(* Several asynchronous callers run SqsHelper operations concurrently.     *)
(* Every operation calls #getClient in its synchronous prefix, and         *)
(* #getClient has no await: JavaScript runs it to completion, so its read  *)
(* of the Map, the construction and the write are one step.                *)
(***************************************************************************)
\* SqsHelper operations started in one behaviour
MaxOps == 4

Endpoints == {"http://localhost:4566", "http://localhost:9324"}
Callers == {"caller1", "caller2", "caller3"}

\* the static methods that call #getClient
Operations == {"getMessages", "clearSqsQueue", "send", "upsertQueue"}

\* SqsHelper.#clients.get(endpoint) of an endpoint that has no entry
NoClient == 0

NoOp == [op |-> "none", endpoint |-> "", client |-> NoClient]

CcIdle ==
    /\ clients = [e \in Endpoints |-> NoClient]
    /\ ops = [c \in Callers |-> NoOp]
    /\ ccHist = [constructed |-> 0, made |-> [e \in Endpoints |-> 0],
                 started |-> 0]

\* variant of CacheMiss that never finds the cached client
CacheMiss_Always(client) == TRUE

\* if (!client)
CacheMiss(client) == client = NoClient

\* #getClient(endpoint): the client to use and the Map after the call; a new
\* SQSClient is a fresh object, named by the number of clients constructed
getClient(endpoint) ==
    LET client == clients[endpoint] IN
    IF CacheMiss(client)
    THEN [client |-> ccHist.constructed + 1,
          clients |-> [clients EXCEPT ![endpoint] = ccHist.constructed + 1],
          constructed |-> TRUE]
    ELSE [client |-> client, clients |-> clients, constructed |-> FALSE]

CcFrame == UNCHANGED <<invokeVars, gmVars, uqVars, cqVars, rlVars, evVars,
                        ctVars>>

\* a caller starts an operation: its synchronous prefix calls #getClient and
\* issues the first send on the client it got
OperationStarts ==
    /\ ccHist.started < MaxOps
    /\ \E c \in Callers, op \in Operations, e \in Endpoints :
          LET got == getClient(e) IN
          /\ ops[c] = NoOp
          /\ clients' = got.clients
          /\ ops' = [ops EXCEPT ![c] = [op |-> op, endpoint |-> e,
                                        client |-> got.client]]
          /\ ccHist' = [constructed |-> IF got.constructed
                                        THEN ccHist.constructed + 1
                                        ELSE ccHist.constructed,
                        made |-> IF got.constructed
                                 THEN [ccHist.made EXCEPT ![e] = @ + 1]
                                 ELSE ccHist.made,
                        started |-> ccHist.started + 1]
    /\ CcFrame

\* the operation of a caller settles
OperationEnds ==
    /\ \E c \in Callers :
          /\ ops[c] # NoOp
          /\ ops' = [ops EXCEPT ![c] = NoOp]
    /\ UNCHANGED <<clients, ccHist>>
    /\ CcFrame

(***************************************************************************)
(* SqsHelper.upsertQueue against the queue service.                        *)
(*                                                                         *)
(* The service keeps, per queue name, the attributes the queue was created *)
(* with over its own defaults.  Every request of upsertQueue is one send   *)
(* that the service answers or that fails; no other client touches the     *)
(* queues during a call.                                                   *)
(***************************************************************************)
\* calls of upsertQueue in one behaviour
MaxUpsertCalls == 2

EmptyAttributes == [k \in {} |-> ""]

\* const DEFAULT_ATTRIBUTES = { ... } as const
DEFAULT_ATTRIBUTES ==
    [DelaySeconds |-> "0",
     MaximumMessageSize |-> "262144",
     MessageRetentionPeriod |-> "345600",
     ReceiveMessageWaitTimeSeconds |-> "0",
     VisibilityTimeout |-> "30"]

\* the AttributeNames of the GetQueueAttributesCommand
AttributeNames ==
    {"DelaySeconds", "MaximumMessageSize", "MessageRetentionPeriod", "Policy",
     "ReceiveMessageWaitTimeSeconds", "VisibilityTimeout"}

\* the Attributes a caller puts in the CreateQueueCommand: none, recognized
\* ones (different from and equal to the default, with and without default)
\* and one outside the AttributeNames
RequestAttributes ==
    {EmptyAttributes,
     [DelaySeconds |-> "5"],
     [DelaySeconds |-> "0"],
     [Policy |-> "policy"],
     [KmsMasterKeyId |-> "alias/aws/sqs"]}

\* Object.assign({}, a, b)
Assign(a, b) ==
    [k \in DOMAIN a \cup DOMAIN b |-> IF k \in DOMAIN b THEN b[k] ELSE a[k]]

Restrict(a, names) == [k \in DOMAIN a \cap names |-> a[k]]

\* variant of shallowEqual that compares the keys only
shallowEqual_KeysOnly(a, b) == DOMAIN a = DOMAIN b

\* shallowEqual of fast-equals: same keys, identical values
shallowEqual(a, b) ==
    /\ DOMAIN a = DOMAIN b
    /\ \A k \in DOMAIN a : a[k] = b[k]

\* Object.assign({}, DEFAULT_ATTRIBUTES, command.input.Attributes, command.input.Attributes)
ExpectedAttributes(cmd) ==
    Assign(Assign(DEFAULT_ATTRIBUTES, cmd.Attributes), cmd.Attributes)

\* variant of CreateRequest that drops the Attributes of the command
CreateRequest_NoAttributes(cmd) ==
    [op |-> "CreateQueue", QueueName |-> cmd.QueueName,
     Attributes |-> EmptyAttributes]

\* client.send(command): the caller's CreateQueueCommand is sent as it is
CreateRequest(cmd) ==
    [op |-> "CreateQueue", QueueName |-> cmd.QueueName,
     Attributes |-> cmd.Attributes]

\* variant of Recreate that ignores force
Recreate_Always(f) == TRUE

\* case error instanceof QueueNameExists && force
Recreate(f) == f

\* the service: a queue that does not exist, and the queue a create makes
NoQueue == [exists |-> FALSE, attrs |-> EmptyAttributes]
CreatedQueue(attrs) == [exists |-> TRUE, attrs |-> Assign(DEFAULT_ATTRIBUTES, attrs)]

\* the service: the answer to GetQueueAttributes for the AttributeNames
GetQueueAttributes(q) == Restrict(q.attrs, AttributeNames)

NoCommand == [QueueName |-> "orders", Attributes |-> EmptyAttributes]
NoPrevious ==
    [outcome |-> "none", command |-> NoCommand, force |-> FALSE,
     queueUrl |-> UnsetUrl]

NoUqHist(qs) ==
    [calls |-> 0, mutations |-> <<>>, before |-> qs, previous |-> NoPrevious]

UqIdleWith(qs) ==
    /\ queues = qs
    /\ uqPc = "idle"
    /\ command = NoCommand
    /\ force = FALSE
    /\ queueUrl = UnsetUrl
    /\ uqError = "none"
    /\ uqHist = NoUqHist(qs)

\* no queue exists
UqIdle == UqIdleWith([n \in QueueNames |-> NoQueue])

\* any queue may exist already, created with any of the attribute sets
UqStart ==
    \E qs \in [QueueNames -> {NoQueue} \cup {CreatedQueue(a) : a \in RequestAttributes}] :
        UqIdleWith(qs)

UqFrame == UNCHANGED <<invokeVars, gmVars, cqVars, ccVars, rlVars, evVars,
                        ctVars>>

\* upsertQueue up to the first await: getQueueUrl()
UpsertQueue ==
    /\ uqPc \in {"idle", "returned", "rejected"}
    /\ uqHist.calls < MaxUpsertCalls
    /\ \E n \in QueueNames, a \in RequestAttributes, f \in BOOLEAN :
          /\ command' = [QueueName |-> n, Attributes |-> a]
          /\ force' = f
    /\ uqPc' = "getQueueUrl"
    /\ queueUrl' = UnsetUrl
    /\ uqError' = "none"
    /\ uqHist' = [calls |-> uqHist.calls + 1,
                  mutations |-> <<>>,
                  before |-> queues,
                  previous |-> [outcome |-> uqPc, command |-> command,
                                force |-> force, queueUrl |-> queueUrl]]
    /\ UNCHANGED queues
    /\ UqFrame

\* the first getQueueUrl() answers: the URL, or QueueDoesNotExist, which the
\* catch block turns into client.send(command)
GetQueueUrlResponds ==
    /\ uqPc = "getQueueUrl"
    /\ IF queues[command.QueueName].exists
       THEN /\ queueUrl' = UrlOf(command.QueueName)
            /\ uqPc' = "getQueueAttributes"
            /\ uqHist' = uqHist
       ELSE /\ queueUrl' = queueUrl
            /\ uqPc' = "createQueue"
            /\ uqHist' = [uqHist EXCEPT !.mutations = Append(@, "create")]
    /\ UNCHANGED <<queues, command, force, uqError>>
    /\ UqFrame

\* GetQueueAttributes answers: equal attributes return the URL; different
\* ones throw QueueNameExists, which the catch block rethrows or, with force,
\* turns into the DeleteQueueCommand
GetQueueAttributesResponds ==
    /\ uqPc = "getQueueAttributes"
    /\ LET actualAttributes == GetQueueAttributes(queues[command.QueueName]) IN
       IF shallowEqual(actualAttributes, ExpectedAttributes(command))
       THEN /\ uqPc' = "returned"
            /\ uqError' = uqError
            /\ uqHist' = uqHist
       ELSE IF Recreate(force)
       THEN /\ uqPc' = "deleteQueue"
            /\ uqError' = uqError
            /\ uqHist' = [uqHist EXCEPT !.mutations = Append(@, "delete")]
       ELSE /\ uqPc' = "rejected"
            /\ uqError' = "QueueNameExists"
            /\ uqHist' = uqHist
    /\ UNCHANGED <<queues, command, force, queueUrl>>
    /\ UqFrame

\* DeleteQueue answers; then client.send(command)
DeleteQueueResponds ==
    /\ uqPc = "deleteQueue"
    /\ queues' = [queues EXCEPT ![queueUrl[2]] = NoQueue]
    /\ uqPc' = "createQueue"
    /\ uqHist' = [uqHist EXCEPT !.mutations = Append(@, "create")]
    /\ UNCHANGED <<command, force, queueUrl, uqError>>
    /\ UqFrame

\* CreateQueue answers: the queue is created (or exists with these
\* attributes), or the service refuses with QueueNameExists; then getQueueUrl()
CreateQueueResponds ==
    /\ uqPc = "createQueue"
    /\ LET req == CreateRequest(command)
           old == queues[req.QueueName]
           new == CreatedQueue(req.Attributes)
       IN IF ~old.exists \/ old = new
          THEN /\ queues' = [queues EXCEPT ![req.QueueName] = new]
               /\ uqPc' = "getQueueUrlAfter"
               /\ uqError' = uqError
          ELSE /\ queues' = queues
               /\ uqPc' = "rejected"
               /\ uqError' = "QueueNameExists"
    /\ UNCHANGED <<command, force, queueUrl, uqHist>>
    /\ UqFrame

\* the second getQueueUrl() answers; return { queueUrl }
GetQueueUrlAfterResponds ==
    /\ uqPc = "getQueueUrlAfter"
    /\ IF queues[command.QueueName].exists
       THEN /\ queueUrl' = UrlOf(command.QueueName)
            /\ uqPc' = "returned"
            /\ uqError' = uqError
       ELSE /\ queueUrl' = queueUrl
            /\ uqPc' = "rejected"
            /\ uqError' = "QueueDoesNotExist"
    /\ UNCHANGED <<queues, command, force, uqHist>>
    /\ UqFrame

\* the send in flight fails with an error of the service or the network; a
\* failed delete or create may or may not have been applied
UpsertSendFails ==
    /\ uqPc \in {"getQueueUrl", "getQueueAttributes", "deleteQueue",
                 "createQueue", "getQueueUrlAfter"}
    /\ uqPc' = "rejected"
    /\ uqError' = "ServiceError"
    /\ \/ queues' = queues
       \/ /\ uqPc = "deleteQueue"
          /\ queues' = [queues EXCEPT ![queueUrl[2]] = NoQueue]
       \/ /\ uqPc = "createQueue"
          /\ ~queues[command.QueueName].exists
          /\ queues' = [queues EXCEPT ![command.QueueName] =
                           CreatedQueue(CreateRequest(command).Attributes)]
    /\ UNCHANGED <<command, force, queueUrl, uqHist>>
    /\ UqFrame

(***************************************************************************)
(* SqsLambdaHelper.toSqsEvent.                                             *)
(*                                                                         *)
(* A message, and a message attribute value, is a function on the names of *)
(* the properties it has: a property that is undefined is not in the       *)
(* domain.  A binary value is a sequence of bytes, base64 text a sequence  *)
(* of characters, and the template string of the ARN the sequence of its   *)
(* components between the colons.                                          *)
(***************************************************************************)
\* bound: number of messages of one toSqsEvent input
MaxEventMessages == 2

NoProperties == [k \in {} |-> ""]

\* { ...a, ...b }: the properties of both objects
With(a, b) == [k \in DOMAIN a \cup DOMAIN b |-> IF k \in DOMAIN b THEN b[k] ELSE a[k]]

\* a property that is copied when the source has it and undefined otherwise
Optional(obj, from, to) ==
    IF from \in DOMAIN obj THEN [k \in {to} |-> obj[from]] ELSE NoProperties

\* the base64 alphabet of Buffer.prototype.toString("base64")
Base64Alphabet ==
    <<"A", "B", "C", "D", "E", "F", "G", "H", "I", "J", "K", "L", "M",
      "N", "O", "P", "Q", "R", "S", "T", "U", "V", "W", "X", "Y", "Z",
      "a", "b", "c", "d", "e", "f", "g", "h", "i", "j", "k", "l", "m",
      "n", "o", "p", "q", "r", "s", "t", "u", "v", "w", "x", "y", "z",
      "0", "1", "2", "3", "4", "5", "6", "7", "8", "9", "+", "/">>

\* the four 6-bit groups of three bytes, as characters
Base64Group(b1, b2, b3) ==
    LET n == b1 * 65536 + b2 * 256 + b3 IN
    <<Base64Alphabet[(n \div 262144) + 1],
      Base64Alphabet[((n \div 4096) % 64) + 1],
      Base64Alphabet[((n \div 64) % 64) + 1],
      Base64Alphabet[(n % 64) + 1]>>

\* variant of Base64 that leaves the padding out
RECURSIVE Base64_NoPadding(_)
Base64_NoPadding(bytes) ==
    IF Len(bytes) = 0 THEN <<>>
    ELSE IF Len(bytes) = 1
    THEN SubSeq(Base64Group(bytes[1], 0, 0), 1, 2)
    ELSE IF Len(bytes) = 2
    THEN SubSeq(Base64Group(bytes[1], bytes[2], 0), 1, 3)
    ELSE Base64Group(bytes[1], bytes[2], bytes[3])
            \o Base64_NoPadding(SubSeq(bytes, 4, Len(bytes)))

\* Buffer.from(b).toString("base64")
RECURSIVE Base64(_)
Base64(bytes) ==
    IF Len(bytes) = 0 THEN <<>>
    ELSE IF Len(bytes) = 1
    THEN SubSeq(Base64Group(bytes[1], 0, 0), 1, 2) \o <<"=", "=">>
    ELSE IF Len(bytes) = 2
    THEN SubSeq(Base64Group(bytes[1], bytes[2], 0), 1, 3) \o <<"=">>
    ELSE Base64Group(bytes[1], bytes[2], bytes[3])
            \o Base64(SubSeq(bytes, 4, Len(bytes)))

\* the entry of messageAttributes made of one entry of m.MessageAttributes
ToMessageAttribute(v) ==
    With(With(With(With(
        [dataType |-> v.DataType],
        IF "BinaryValue" \in DOMAIN v
        THEN [binaryValue |-> Base64(v.BinaryValue)]
        ELSE NoProperties),
        IF "BinaryListValues" \in DOMAIN v
        THEN [binaryListValues |->
                 [i \in DOMAIN v.BinaryListValues |-> Base64(v.BinaryListValues[i])]]
        ELSE NoProperties),
        Optional(v, "StringValue", "stringValue")),
        Optional(v, "StringListValues", "stringListValues"))

\* `arn:aws:sqs:${region}:${account}:${queueName}`
EventSourceARN(region, account, queueName) ==
    <<"arn", "aws", "sqs", region, account, queueName>>

\* the record made of one message
ToRecord(m, region, account, queueName) ==
    With(With(
        [awsRegion |-> region,
         eventSource |-> "aws:sqs",
         eventSourceARN |-> EventSourceARN(region, account, queueName),
         messageAttributes |->
             IF "MessageAttributes" \in DOMAIN m
             THEN [k \in DOMAIN m.MessageAttributes |->
                      ToMessageAttribute(m.MessageAttributes[k])]
             ELSE NoProperties,
         body |-> m.Body,
         messageId |-> m.MessageId,
         receiptHandle |-> m.ReceiptHandle],
        Optional(m, "Attributes", "attributes")),
        Optional(m, "MD5OfBody", "md5OfBody"))

\* a destructuring default: used when the property is undefined
Default(v, d) == IF v = JsUndefined THEN d ELSE v

\* a ?? b
Nullish(v, d) == IF v \in {JsUndefined, JsNull} THEN d ELSE v

\* toSqsEvent(input) under process.env.AWS_REGION = env
toSqsEvent(in, env) ==
    LET account == Default(in.account, "123456789012")
        queueName == Default(in.queueName, "queue")
        region == Default(in.region, Nullish(env, "us-east-1"))
    IN [event |->
          [Records |-> [i \in DOMAIN in.messages |->
              ToRecord(in.messages[i], region, account, queueName)]]]

\* the values of the message attributes of the inputs
BinaryValues == {<<>>, <<98>>, <<108, 105>>, <<98, 105, 110>>, <<255, 0, 16, 200>>}

MessageAttributeValues ==
    {[DataType |-> "String", StringValue |-> "string"],
     [DataType |-> "String.list", StringListValues |-> <<"string", "list">>],
     [DataType |-> "Binary.list",
      BinaryListValues |-> <<<<98, 105, 110>>, <<108, 105>>>>]}
    \cup {[DataType |-> "Binary", BinaryValue |-> b] : b \in BinaryValues}

\* what a message has besides its body, identifier and receipt handle
MessageExtras ==
    {NoProperties,
     [Attributes |-> [SentTimestamp |-> "1", SenderId |-> "sender"]],
     [MessageAttributes |-> NoProperties]}
    \cup {[MessageAttributes |-> [attribute |-> v]] : v \in MessageAttributeValues}
    \cup {[Attributes |-> [SentTimestamp |-> "2"],
           MessageAttributes |->
               [first |-> [DataType |-> "String", StringValue |-> "string"],
                second |-> [DataType |-> "Binary", BinaryValue |-> <<98, 105>>]]]}

\* the message of the queue with identifier id
Message(id, extras) ==
    With([MessageId |-> id,
          ReceiptHandle |-> <<"receipt-handle", id>>,
          Body |-> <<"body", id>>,
          MD5OfBody |-> <<"md5", id>>],
         extras)

\* a receive that names no attribute returns the message without its
\* attributes
Received(id) == Message(id, NoProperties)

EventMessages == {Message(id, x) : id \in 1..2, x \in MessageExtras}

RECURSIVE SeqsUpTo(_, _)
SeqsUpTo(S, n) ==
    IF n = 0 THEN {<<>>}
    ELSE LET shorter == SeqsUpTo(S, n - 1) IN
         shorter \cup {Append(q, x) : q \in {r \in shorter : Len(r) = n - 1}, x \in S}

NoEvent == [event |-> [Records |-> <<>>]]

NoEvInput ==
    [messages |-> <<>>, account |-> JsUndefined, queueName |-> JsUndefined,
     region |-> JsUndefined]

\* no toSqsEvent call of a test yet
EvIdleWith(in, env) ==
    /\ AWS_REGION = env
    /\ evPc = "idle"
    /\ evInput = in
    /\ evOutput = NoEvent

EvIdle == EvIdleWith(NoEvInput, JsUndefined)

EvFrame == UNCHANGED <<invokeVars, gmVars, uqVars, cqVars, ccVars, rlVars, ctVars>>

\* a test calls toSqsEvent on its input
ToSqsEvent ==
    /\ evPc = "idle"
    /\ evPc' = "returned"
    /\ evOutput' = toSqsEvent(evInput, AWS_REGION)
    /\ UNCHANGED <<AWS_REGION, evInput>>
    /\ EvFrame

\* before invokeLambda is called
InvokeIdle ==
    /\ pc = "start"
    /\ promise = Pending
    /\ promiseSettled = FALSE
    /\ timeoutId = "null"
    /\ timerPending = FALSE
    /\ returned = [how |-> "running", value |-> JsUndefined]
    /\ output = NoOutput
    /\ first = NoSignal
    /\ nsig = 0

\* invokeLambda up to the call of the handler, on the fresh locals of a call
invokeLambda ==
    /\ pc' = "handler"
    /\ promise' = Pending
    /\ promiseSettled' = FALSE
    /\ timeoutId' = "Timeout"
    /\ timerPending' = TRUE
    /\ returned' = [how |-> "running", value |-> JsUndefined]
    /\ output' = NoOutput
    /\ first' = NoSignal
    /\ nsig' = 0

\* the locals of an invokeLambda call that returned are dropped
InvokeDropped ==
    /\ pc' = "start"
    /\ promise' = Pending
    /\ promiseSettled' = FALSE
    /\ timeoutId' = "null"
    /\ timerPending' = FALSE
    /\ returned' = [how |-> "running", value |-> JsUndefined]
    /\ output' = NoOutput
    /\ first' = NoSignal
    /\ nsig' = 0

(***************************************************************************)
(* LambdaHelper.#createContext: getRemainingTimeInMillis and Date.now().   *)
(*                                                                         *)
(* Date.now() reads the wall clock of the host, in milliseconds.  The wall *)
(* clock advances with time and is set forward or back when the host       *)
(* adjusts it (clock synchronisation, a manual change).                    *)
(***************************************************************************)
\* bounds: the wall clock reads 0..MaxClock, and the handler queries the
\* remaining time at most MaxQueries times
MaxClock == 4
MaxQueries == 2

\* timeout * 1000
MsPerSecond == 1000

\* input.timeout, in seconds
Timeouts == {1, 2}

NoCtHist == [queries |-> 0, last |-> 0, previous |-> 0]

\* no context yet; the wall clock reads t
CtIdleWith(t) ==
    /\ dateNow = t
    /\ now = 0
    /\ ctTimeout = 1
    /\ ctHist = NoCtHist

CtIdle == CtIdleWith(0)

\* getRemainingTimeInMillis() of the context
getRemainingTimeInMillis ==
    LET elapsed == dateNow - now
        timeoutInMs == ctTimeout * MsPerSecond
    IN timeoutInMs - elapsed

CtFrame == UNCHANGED <<gmVars, uqVars, cqVars, ccVars, rlVars, evVars>>

\* invokeLambda up to the call of the handler, with the context that
\* #createContext makes: const now = Date.now()
InvokeLambdaWithContext ==
    /\ pc = "start"
    /\ invokeLambda
    /\ \E t \in Timeouts : ctTimeout' = t
    /\ now' = dateNow
    /\ ctHist' = NoCtHist
    /\ UNCHANGED dateNow
    /\ CtFrame

\* the handler's code calls context.getRemainingTimeInMillis()
GetRemainingTimeInMillis ==
    /\ pc = "handler"
    /\ ctHist.queries < MaxQueries
    /\ ctHist' = [queries |-> ctHist.queries + 1,
                  last |-> getRemainingTimeInMillis,
                  previous |-> ctHist.last]
    /\ UNCHANGED <<dateNow, now, ctTimeout>>
    /\ UNCHANGED invokeVars
    /\ CtFrame

\* time passes
ClockAdvances ==
    /\ dateNow < MaxClock
    /\ \E t \in (dateNow + 1)..MaxClock : dateNow' = t
    /\ UNCHANGED <<now, ctTimeout, ctHist>>
    /\ UNCHANGED invokeVars
    /\ CtFrame

\* the host sets its wall clock back
ClockSetBack ==
    /\ dateNow > 0
    /\ \E t \in 0..(dateNow - 1) : dateNow' = t
    /\ UNCHANGED <<now, ctTimeout, ctHist>>
    /\ UNCHANGED invokeVars
    /\ CtFrame

NoLog == [level |-> "none"]

NoRlHist ==
    [lookups |-> 0, polls |-> 0, invokes |-> 0, logs |-> 0,
     cancelled |-> FALSE, fatal |-> FALSE,
     handed |-> {}, abortedInvoking |-> FALSE, invokesAfterAbort |-> 0]

\* before runSqsLambda is called
RlIdle ==
    /\ rlPc = "idle"
    /\ rlQueue = [by |-> "url", name |-> "", url |-> UnsetUrl]
    /\ rlBatchSize = Undefined
    /\ rlQueueUrl = UnsetUrl
    /\ rlError = "none"
    /\ logged = NoLog
    /\ rlEvent = NoEvent
    /\ lateHandler = FALSE
    /\ rlHist = NoRlHist

Init ==
    /\ InvokeIdle
    /\ GmIdle
    /\ UqIdle
    /\ CqIdle
    /\ CcIdle
    /\ RlIdle
    /\ EvIdle
    /\ CtIdle

\* invokeLambda up to the call of the handler: creates the promise and the
\* callback, arms the timer and enters the handler's synchronous body
InvokeLambda ==
    /\ pc = "start"
    /\ invokeLambda
    /\ UNCHANGED sqsVars

\* the handler's code runs (in its synchronous body or in a later task)
HandlerRuns == pc \in {"handler", "awaiting", "returned"}

HandlerCallback ==
    /\ HandlerRuns /\ nsig < MaxSignals
    /\ \E e \in ErrorValues, r \in ResultValues :
          /\ SetClosure(callback(Closure, e, r))
          /\ Record("callback", e, r)
    /\ nsig' = nsig + 1
    /\ UNCHANGED <<pc, returned, output>>
    /\ UNCHANGED sqsVars

ContextDone ==
    /\ HandlerRuns /\ nsig < MaxSignals
    /\ \E e \in ErrorValues, r \in ResultValues :
          /\ SetClosure(done(Closure, e, r))
          /\ Record("done", e, r)
    /\ nsig' = nsig + 1
    /\ UNCHANGED <<pc, returned, output>>
    /\ UNCHANGED sqsVars

ContextFail ==
    /\ HandlerRuns /\ nsig < MaxSignals
    /\ \E e \in ErrorValues :
          /\ SetClosure(fail(Closure, e))
          /\ Record("fail", e, JsUndefined)
    /\ nsig' = nsig + 1
    /\ UNCHANGED <<pc, returned, output>>
    /\ UNCHANGED sqsVars

ContextSucceed ==
    /\ HandlerRuns /\ nsig < MaxSignals
    /\ \E r \in ResultValues :
          /\ SetClosure(succeed(Closure, r))
          /\ Record("succeed", JsUndefined, r)
    /\ nsig' = nsig + 1
    /\ UNCHANGED <<pc, returned, output>>
    /\ UNCHANGED sqsVars

\* the handler call throws: catch (error) { reject(error) }
HandlerThrows ==
    /\ pc = "handler"
    /\ \E e \in ErrorValues :
          /\ SetClosure(reject(Closure, e))
          /\ Record("throw", e, JsUndefined)
          /\ returned' = [how |-> "threw", value |-> e]
    /\ pc' = "awaiting"
    /\ UNCHANGED <<output, nsig>>
    /\ UNCHANGED sqsVars

\* variant of HandlerReturnsValue that treats the returned value as a result
HandlerReturnsValue_Resolves ==
    /\ pc = "handler"
    /\ \E v \in ResultValues :
          /\ SetClosure(resolve(Closure, v))
          /\ Record("return", JsUndefined, v)
          /\ returned' = [how |-> "value", value |-> v]
    /\ pc' = "awaiting"
    /\ UNCHANGED <<output, nsig>>
    /\ UNCHANGED sqsVars

\* the handler returns a value that is not a Promise: nothing is registered
HandlerReturnsValue ==
    /\ pc = "handler"
    /\ \E v \in ResultValues : returned' = [how |-> "value", value |-> v]
    /\ pc' = "awaiting"
    /\ UNCHANGED <<promise, promiseSettled, timeoutId, timerPending,
                   output, first, nsig>>
    /\ UNCHANGED sqsVars

\* the handler returns a Promise: result.then(resolve, reject)
HandlerReturnsPromise ==
    /\ pc = "handler"
    /\ returned' = [how |-> "promise", value |-> JsUndefined]
    /\ pc' = "awaiting"
    /\ UNCHANGED <<promise, promiseSettled, timeoutId, timerPending,
                   output, first, nsig>>
    /\ UNCHANGED sqsVars

\* the returned Promise resolves and its reaction calls resolve(value)
PromiseResolves ==
    /\ returned.how = "promise"
    /\ pc \in {"awaiting", "returned"}
    /\ \E v \in ResultValues :
          /\ SetClosure(resolve(Closure, v))
          /\ Record("promiseResolve", JsUndefined, v)
          /\ returned' = [how |-> "promiseResolved", value |-> v]
    /\ UNCHANGED <<pc, output, nsig>>
    /\ UNCHANGED sqsVars

\* the returned Promise rejects and its reaction calls reject(reason)
PromiseRejects ==
    /\ returned.how = "promise"
    /\ pc \in {"awaiting", "returned"}
    /\ \E e \in ErrorValues :
          /\ SetClosure(reject(Closure, e))
          /\ Record("promiseReject", e, JsUndefined)
          /\ returned' = [how |-> "promiseRejected", value |-> e]
    /\ UNCHANGED <<pc, output, nsig>>
    /\ UNCHANGED sqsVars

\* variant of TimerFires whose callback forgets to reject
TimerFires_NoReject ==
    /\ timerPending
    /\ pc \in {"awaiting", "returned"}
    /\ timerPending' = FALSE
    /\ timeoutId' = "null"
    /\ UNCHANGED <<pc, promise, promiseSettled, returned, output, first, nsig>>
    /\ UNCHANGED sqsVars

\* the timer callback: timeoutId = null; reject("lambda-helper-timeout")
TimerFires ==
    /\ timerPending
    /\ pc \in {"awaiting", "returned"}
    /\ SetClosure(reject([Closure EXCEPT !.timerPending = FALSE,
                                         !.timeoutId = "null"],
                         TimeoutSentinel))
    /\ Record("timer", JsUndefined, JsUndefined)
    /\ UNCHANGED <<pc, returned, output, nsig>>
    /\ UNCHANGED sqsVars

\* variant of AwaitResumes without the catch block: a rejection propagates
AwaitResumes_NoCatch ==
    /\ pc = "awaiting"
    /\ promise.state # "pending"
    /\ IF promise.state = "fulfilled"
       THEN output' = ToOutput(promise) /\ pc' = "returned"
       ELSE output' = output /\ pc' = "rejected"
    /\ UNCHANGED <<promise, promiseSettled, timeoutId, timerPending,
                   returned, first, nsig>>
    /\ UNCHANGED sqsVars

\* the continuation of `await promise`: return { result, success: true } or,
\* in the catch block, return { error, success: false, timeout }
AwaitResumes ==
    /\ pc = "awaiting"
    /\ promise.state # "pending"
    /\ output' = ToOutput(promise)
    /\ pc' = "returned"
    /\ UNCHANGED <<promise, promiseSettled, timeoutId, timerPending,
                   returned, first, nsig>>
    /\ UNCHANGED sqsVars

Next ==
    \/ InvokeLambda
    \/ HandlerCallback
    \/ ContextDone
    \/ ContextFail
    \/ ContextSucceed
    \/ HandlerThrows
    \/ HandlerReturnsValue
    \/ HandlerReturnsPromise
    \/ PromiseResolves
    \/ PromiseRejects
    \/ TimerFires
    \/ AwaitResumes

Spec == Init /\ [][Next]_vars

\* The event loop runs every ready task: the timer callback and the
\* continuation of the await are eventually run, and the handler's
\* synchronous body returns control to the event loop.
HandlerBodyEnds == HandlerThrows \/ HandlerReturnsValue \/ HandlerReturnsPromise

LiveSpec ==
    /\ Init /\ [][Next]_vars
    /\ WF_vars(InvokeLambda)
    /\ WF_vars(HandlerBodyEnds)
    /\ WF_vars(TimerFires)
    /\ WF_vars(AwaitResumes)

(***************************************************************************)
(* SqsLambdaHelper.runSqsLambda: the poll / invoke loop.                   *)
(*                                                                         *)
(* One behaviour is one run.  The run calls getMessages and invokeLambda   *)
(* of the models above: a call is made in the step of the run that reaches *)
(* it, the steps of the callee are the callee's own actions, and the run   *)
(* goes on in a later step, once the callee has settled.  The signal the   *)
(* run was given is the signal getMessages hands to its sends.  A signal   *)
(* that arrives for an invocation after invokeLambda returned acts on the  *)
(* settled promise of that call only, so the locals of the call are        *)
(* dropped when the run takes its result.                                  *)
(***************************************************************************)
\* input.queue: { name } or { url }
QueueRefs ==
    {[by |-> "name", name |-> "orders", url |-> UnsetUrl],
     [by |-> "url", name |-> "", url |-> UrlOf("orders")]}

\* input.batchSize: a number
RunBatchSizes == {Given(0), Given(1), Given(2)}

\* variant of NeedsLookup that looks every queue reference up
NeedsLookup_Always(q) == TRUE

\* if ("name" in queue)
NeedsLookup(q) == q.by = "name"

\* variant of LoopCondition that never enters the loop
LoopCondition_Never(sig) == FALSE

\* while (abortSignal === undefined || !abortSignal.aborted)
LoopCondition(sig) == sig = "none" \/ sig # "aborted"

\* variant of IsCancellation that recognizes no error
IsCancellation_Never(e) == FALSE

\* if (error instanceof Error && error.name === "AbortError")
IsCancellation(e) == e = "AbortError"

\* variant of Rethrown that replaces the error
Rethrown_Generic(e) == "Error"

\* throw error
Rethrown(e) == e

\* variant of LogRecord that drops the timed-out flag
LogRecord_NoTimeout(o) ==
    IF o.success
    THEN [level |-> "info", message |-> "Successfully invoked lambda handler.",
          result |-> o.result, error |-> JsUndefined, timeout |-> FALSE]
    ELSE [level |-> "error", message |-> "Failed to invoke lambda handler.",
          result |-> JsUndefined, error |-> o.error, timeout |-> FALSE]

\* logger.info("Successfully invoked lambda handler.", { result }) or
\* logger.error("Failed to invoke lambda handler.", { error, timeout })
LogRecord(o) ==
    IF o.success
    THEN [level |-> "info", message |-> "Successfully invoked lambda handler.",
          result |-> o.result, error |-> JsUndefined, timeout |-> FALSE]
    ELSE [level |-> "error", message |-> "Failed to invoke lambda handler.",
          result |-> JsUndefined, error |-> o.error, timeout |-> o.timeout]

RlFrame == UNCHANGED <<uqVars, cqVars, ccVars, evVars, ctVars>>

\* the variables of the getMessages model other than the signal
gmNoSignalVars == <<queue, sent, gmPc, batchSize, keep, messages, res,
                    request, gmError, gmHist, gmQueueUrl>>

\* the loop test, and the call of getMessages when the loop goes on
PollOrResolve(sig, b, url, hist) ==
    IF LoopCondition(sig)
    THEN /\ rlPc' = "polling"
         /\ getMessages(b, FALSE, sig, url)
         /\ rlHist' = [hist EXCEPT !.polls = @ + 1]
    ELSE /\ rlPc' = "resolved"
         /\ abortSignal' = sig
         /\ UNCHANGED gmNoSignalVars
         /\ rlHist' = hist

\* runSqsLambda up to its first await: the lookup of the name or, for a URL,
\* the loop test and the first getMessages
RunSqsLambda ==
    /\ rlPc = "idle"
    /\ gmPc = "idle"
    /\ \E q \in QueueRefs, b \in RunBatchSizes, sig \in {"none", "active", "aborted"} :
          /\ rlQueue' = q
          /\ rlBatchSize' = b
          /\ IF NeedsLookup(q)
             THEN /\ rlPc' = "getQueueUrl"
                  /\ rlQueueUrl' = UnsetUrl
                  /\ rlHist' = [rlHist EXCEPT !.lookups = @ + 1]
                  /\ abortSignal' = sig
                  /\ UNCHANGED gmNoSignalVars
             ELSE /\ rlQueueUrl' = q.url
                  /\ PollOrResolve(sig, b, q.url, rlHist)
    /\ UNCHANGED <<rlError, logged, rlEvent, lateHandler>>
    /\ UNCHANGED invokeVars
    /\ RlFrame

\* GetQueueUrl answers: queueUrl = QueueUrl!; then the loop test and the
\* first getMessages
GetQueueUrlReturns ==
    /\ rlPc = "getQueueUrl"
    /\ rlQueueUrl' = UrlOf(rlQueue.name)
    /\ PollOrResolve(abortSignal, rlBatchSize, UrlOf(rlQueue.name), rlHist)
    /\ UNCHANGED <<rlQueue, rlBatchSize, rlError, logged, rlEvent, lateHandler>>
    /\ UNCHANGED invokeVars
    /\ RlFrame

\* GetQueueUrl fails (no queue of that name, or an error of the service or
\* the network): the await throws out of runSqsLambda
GetQueueUrlFails ==
    /\ rlPc = "getQueueUrl"
    /\ rlPc' = "rejected"
    /\ \E e \in {"QueueDoesNotExist", "ServiceError"} : rlError' = e
    /\ UNCHANGED <<rlQueue, rlBatchSize, rlQueueUrl, logged, rlEvent,
                   lateHandler, rlHist>>
    /\ UNCHANGED <<invokeVars, gmVars>>
    /\ RlFrame

\* variant of AbortRun in which the trigger ends the run at once
AbortRun_Interrupts ==
    /\ rlPc \in {"getQueueUrl", "polling", "invoking"}
    /\ ~InFlight
    /\ abortSignal = "active"
    /\ abortSignal' = "aborted"
    /\ rlPc' = "resolved"
    /\ rlHist' = [rlHist EXCEPT !.abortedInvoking = @ \/ rlPc = "invoking"]
    /\ UNCHANGED gmNoSignalVars
    /\ UNCHANGED <<rlQueue, rlBatchSize, rlQueueUrl, rlError, logged, rlEvent,
                   lateHandler>>
    /\ UNCHANGED invokeVars
    /\ RlFrame

\* the caller triggers the abort signal while no send of getMessages is in
\* flight (during the lookup, during an invocation, between two awaits)
AbortRun ==
    /\ rlPc \in {"getQueueUrl", "polling", "invoking"}
    /\ ~InFlight
    /\ abortSignal = "active"
    /\ abortSignal' = "aborted"
    /\ rlHist' = [rlHist EXCEPT !.abortedInvoking = @ \/ rlPc = "invoking"]
    /\ UNCHANGED gmNoSignalVars
    /\ UNCHANGED <<rlPc, rlQueue, rlBatchSize, rlQueueUrl, rlError, logged,
                   rlEvent, lateHandler>>
    /\ UNCHANGED invokeVars
    /\ RlFrame

\* toSqsEvent({ messages }): the messages as the receives returned them, and
\* no account, queueName or region
RunEventInput(received) ==
    [messages |-> [i \in DOMAIN received |-> Received(received[i])],
     account |-> JsUndefined, queueName |-> JsUndefined, region |-> JsUndefined]

\* getMessages settled: the catch block (break on AbortError, throw error
\* otherwise) or toSqsEvent and the call of invokeLambda
PollResumes ==
    /\ rlPc = "polling"
    /\ gmPc \in {"returned", "rejected"}
    /\ IF gmPc = "rejected"
       THEN /\ IF IsCancellation(gmError)
               THEN /\ rlPc' = "resolved"
                    /\ rlError' = rlError
                    /\ rlHist' = [rlHist EXCEPT !.cancelled = TRUE]
               ELSE /\ rlPc' = "rejected"
                    /\ rlError' = Rethrown(gmError)
                    /\ rlHist' = [rlHist EXCEPT !.fatal = TRUE]
            /\ UNCHANGED invokeVars
            /\ rlEvent' = rlEvent
       ELSE /\ rlPc' = "invoking"
            /\ rlEvent' = toSqsEvent(RunEventInput(messages), AWS_REGION)
            /\ invokeLambda
            /\ rlError' = rlError
            /\ rlHist' = [rlHist EXCEPT
                              !.invokes = @ + 1,
                              !.handed = @ \cup SeqToSet(messages),
                              !.invokesAfterAbort =
                                  IF abortSignal = "aborted" THEN @ + 1 ELSE @]
    /\ UNCHANGED <<rlQueue, rlBatchSize, rlQueueUrl, logged, lateHandler>>
    /\ UNCHANGED gmVars
    /\ RlFrame

\* the handler is an async function (it returned a Promise) whose body has not
\* ended: its Promise is still pending
HandlerPending(r) == r.how = "promise"

\* invokeLambda returned its output: the report to the logger, then the loop
\* test and the next getMessages
InvokeResumes ==
    /\ rlPc = "invoking"
    /\ pc = "returned"
    /\ logged' = LogRecord(output)
    /\ PollOrResolve(abortSignal, rlBatchSize, rlQueueUrl,
                     [rlHist EXCEPT !.logs = @ + 1])
    /\ InvokeDropped
    /\ lateHandler' = (lateHandler \/ HandlerPending(returned))
    /\ UNCHANGED <<rlQueue, rlBatchSize, rlQueueUrl, rlError, rlEvent>>
    /\ RlFrame

\* the handler code of an invocation that invokeLambda already returned from
\* (its result came from the timer or from an earlier signal) ends: the
\* promise it returned settles, and resolve / reject find the result settled
LateHandlerEnds ==
    /\ lateHandler
    /\ lateHandler' = FALSE
    /\ UNCHANGED <<rlPc, rlQueue, rlBatchSize, rlQueueUrl, rlError, logged,
                   rlEvent, rlHist>>
    /\ UNCHANGED <<invokeVars, gmVars>>
    /\ RlFrame

\* The handler of the run signals through its return value, a throw or the
\* callback; context.done, context.fail and context.succeed are calls of the
\* same callback.
RlNext ==
    \/ RunSqsLambda
    \/ GetQueueUrlReturns
    \/ GetQueueUrlFails
    \/ AbortRun
    \/ PollResumes
    \/ InvokeResumes
    \/ LateHandlerEnds
    \/ ReceiveCompletes
    \/ DeleteCompletes
    \/ SendFails
    \/ SendAborts
    \/ Abort
    \/ SendMessage
    \/ HandlerCallback
    \/ HandlerThrows
    \/ HandlerReturnsValue
    \/ HandlerReturnsPromise
    \/ PromiseResolves
    \/ PromiseRejects
    \/ TimerFires
    \/ AwaitResumes

RlSpec == Init /\ [][RlNext]_vars

\* The run with a handler that does not call the callback: it throws, returns
\* a value or returns a Promise, which settles or stays pending.  A callback
\* call only settles the promise of invokeLambda earlier, as a settling
\* Promise does.
RlLiveNext ==
    \/ RunSqsLambda
    \/ GetQueueUrlReturns
    \/ GetQueueUrlFails
    \/ AbortRun
    \/ PollResumes
    \/ InvokeResumes
    \/ LateHandlerEnds
    \/ ReceiveCompletes
    \/ DeleteCompletes
    \/ SendFails
    \/ SendAborts
    \/ Abort
    \/ SendMessage
    \/ HandlerThrows
    \/ HandlerReturnsValue
    \/ HandlerReturnsPromise
    \/ PromiseResolves
    \/ PromiseRejects
    \/ TimerFires
    \/ AwaitResumes

\* The event loop runs every ready task and the service answers a lookup:
\* the continuations of the run's awaits are eventually run, the handler's
\* synchronous body returns control, the timer callback runs, and a send in
\* flight whose signal is aborted rejects.  A long poll may stay unanswered.
RlLiveSpec ==
    /\ Init /\ [][RlLiveNext]_vars
    /\ WF_vars(GetQueueUrlReturns \/ GetQueueUrlFails)
    /\ WF_vars(PollResumes)
    /\ WF_vars(InvokeResumes)
    /\ WF_vars(HandlerBodyEnds)
    /\ WF_vars(TimerFires)
    /\ WF_vars(AwaitResumes)
    /\ WF_vars(SendAborts)

(***************************************************************************)
(* Calls of clearSqsQueue on a queue that may hold messages.               *)
(***************************************************************************)
CqInit ==
    /\ InvokeIdle
    /\ \E n \in 0..MaxQueued : GmIdleWith(n)
    /\ UqIdle
    /\ CqIdle
    /\ CcIdle
    /\ RlIdle
    /\ EvIdle
    /\ CtIdle

CqNext ==
    \/ ClearSqsQueue
    \/ PurgeCompletes
    \/ ClearReceiveCompletes
    \/ ClearDeleteCompletes
    \/ ClearSendFails
    \/ GetMessagesAfterClear
    \/ ReceiveCompletes
    \/ DeleteCompletes
    \/ SendFails
    \/ SendMessage

CqSpec == CqInit /\ [][CqNext]_vars

\* The service answers every request: a send in flight settles.
CqLiveSpec ==
    /\ CqInit /\ [][CqNext]_vars
    /\ WF_vars(PurgeCompletes)
    /\ WF_vars(ClearReceiveCompletes)
    /\ WF_vars(ClearDeleteCompletes)

(***************************************************************************)
(* Concurrent SqsHelper operations on the client cache.                    *)
(***************************************************************************)
CcNext ==
    \/ OperationStarts
    \/ OperationEnds

CcSpec == Init /\ [][CcNext]_vars

(***************************************************************************)
(* Calls of getMessages while other clients send messages.                 *)
(***************************************************************************)
GmNext ==
    \/ GetMessages
    \/ ReceiveCompletes
    \/ DeleteCompletes
    \/ SendFails
    \/ SendAborts
    \/ Abort
    \/ SendMessage

GmSpec == Init /\ [][GmNext]_vars

(***************************************************************************)
(* Calls of upsertQueue on a service that may already hold queues.         *)
(***************************************************************************)
UqInit ==
    /\ InvokeIdle
    /\ GmIdle
    /\ UqStart
    /\ CqIdle
    /\ CcIdle
    /\ RlIdle
    /\ EvIdle
    /\ CtIdle

UqNext ==
    \/ UpsertQueue
    \/ GetQueueUrlResponds
    \/ GetQueueAttributesResponds
    \/ DeleteQueueResponds
    \/ CreateQueueResponds
    \/ GetQueueUrlAfterResponds
    \/ UpsertSendFails

UqSpec == UqInit /\ [][UqNext]_vars

(***************************************************************************)
(* Calls of toSqsEvent on the inputs of a test.                            *)
(***************************************************************************)
EvInit ==
    /\ InvokeIdle
    /\ GmIdle
    /\ UqIdle
    /\ CqIdle
    /\ CcIdle
    /\ RlIdle
    /\ CtIdle
    /\ \E ms \in SeqsUpTo(EventMessages, MaxEventMessages),
          account \in {JsUndefined, "account"},
          queueName \in {JsUndefined, "queue-name"},
          region \in {JsUndefined, "region"},
          env \in {JsUndefined, "eu-west-1"} :
          EvIdleWith([messages |-> ms, account |-> account,
                      queueName |-> queueName, region |-> region], env)

EvNext == ToSqsEvent

EvSpec == EvInit /\ [][EvNext]_vars

(***************************************************************************)
(* An invocation whose handler queries the remaining time.                 *)
(***************************************************************************)
CtInit ==
    /\ InvokeIdle
    /\ GmIdle
    /\ UqIdle
    /\ CqIdle
    /\ CcIdle
    /\ RlIdle
    /\ EvIdle
    /\ \E t \in 0..MaxClock : CtIdleWith(t)

CtNext ==
    \/ InvokeLambdaWithContext
    \/ GetRemainingTimeInMillis
    \/ ClockAdvances
    \/ ClockSetBack

CtSpec == CtInit /\ [][CtNext]_vars

TypeOK ==
    /\ pc \in {"start", "handler", "awaiting", "returned", "rejected"}
    /\ promiseSettled \in BOOLEAN
    /\ timerPending \in BOOLEAN
    /\ timeoutId \in {"null", "Timeout"}
    /\ nsig \in 0..MaxSignals

(***************************************************************************)
(* Properties of invokeLambda.                                             *)
(***************************************************************************)
SuccessOf(result) == [kind |-> "returned", success |-> TRUE, result |-> result]
FailureOf(error, timeout) ==
    [kind |-> "returned", success |-> FALSE, error |-> error, timeout |-> timeout]

CallbackMechs == {"callback", "done", "fail", "succeed"}

\* what the first signal alone asks for
OutcomeOf(sig) ==
    CASE sig.mech \in {"callback", "done", "fail"} ->
            IF Truthy(sig.error)
            THEN ToOutput([state |-> "rejected", value |-> sig.error])
            ELSE SuccessOf(sig.result)
      [] sig.mech \in {"succeed", "promiseResolve"} -> SuccessOf(sig.result)
      [] sig.mech \in {"throw", "promiseReject"} ->
            ToOutput([state |-> "rejected", value |-> sig.error])
      [] sig.mech = "timer" -> FailureOf(JsUndefined, TRUE)
      [] OTHER -> NoOutput

OneVariant(o) ==
    \/ DOMAIN o = {"kind", "success", "result"} /\ o.success = TRUE
    \/ DOMAIN o = {"kind", "success", "error", "timeout"}
         /\ o.success = FALSE /\ o.timeout \in BOOLEAN

\* C1: settlement is single-write. The promise is settled exactly when a
\* first completion signal has occurred; once it has, no later signal of any
\* mechanism (nor the timer) changes the promise or the returned result; the
\* returned result is the one the first signal alone asks for and is exactly
\* one variant, Success{result} or Failure{error, timeout}.
C1_SingleWrite ==
    /\ [](promiseSettled <=> first # NoSignal)
    /\ [][first # NoSignal => promise' = promise]_vars
    /\ [][output # NoOutput => output' = output]_vars
    /\ [](pc = "returned" => output = OutcomeOf(first) /\ OneVariant(output))

\* C1 witness: the invocation returned after several signals of different
\* mechanisms were raised
C1_Witness ==
    /\ pc = "returned"
    /\ nsig >= 2
    /\ first.mech \in CallbackMechs
    /\ returned.how \in {"threw", "promiseResolved", "promiseRejected"}

\* C2: if the handler raises no completion signal before the timer expires,
\* the call still returns, with Failure{error: undefined, timeout: true}.
\* (In every behaviour, either the handler signals first or the call
\* eventually returns that result.)
C2_TimeoutSettles ==
    <>(\/ first.mech \notin {"none", "timer"}
       \/ pc = "returned" /\ output = FailureOf(JsUndefined, TRUE))

\* C2 witness: a handler that raised nothing, and the call returned on timeout
C2_Witness ==
    /\ pc = "returned"
    /\ first.mech = "timer"
    /\ nsig = 0
    /\ returned.how = "promise"
    /\ output = FailureOf(JsUndefined, TRUE)

\* a failure signalled by the handler: throw, rejection, or callback / done /
\* fail with an error
HandlerFailure(sig) ==
    \/ sig.mech \in {"throw", "promiseReject"}
    \/ sig.mech \in {"callback", "done", "fail"} /\ Truthy(sig.error)

\* C3: the result has timeout = true if and only if the timer expired before
\* any completion signal of the handler; every failure caused by the handler
\* gives timeout = false and error equal to the value the handler signalled,
\* whatever that value is.
C3_TimeoutIffTimer ==
    pc = "returned" =>
        /\ (output.success = FALSE /\ output.timeout) <=> (first.mech = "timer")
        /\ HandlerFailure(first) => output = FailureOf(first.error, FALSE)

\* C4: the timer is cancelled as soon as the invocation is settled: in every
\* state after settlement, and after invokeLambda has returned, no timer of
\* the invocation is pending.
C4_TimerCancelled ==
    (promiseSettled \/ pc = "returned") => ~timerPending

\* C4 witness: settled by the handler while the timer was armed, and returned
C4_Witness ==
    /\ pc = "returned"
    /\ promiseSettled
    /\ first.mech = "succeed"
    /\ ~timerPending
    /\ timeoutId = "null"

\* C5: if the handler call throws synchronously and no completion signal
\* preceded it, the invocation is settled at once and the result is Failure
\* carrying the thrown error with timeout = false.
C5_SyncThrow ==
    first.mech = "throw" =>
        /\ promiseSettled
        /\ pc = "returned" => output = FailureOf(first.error, FALSE)

\* C6: invokeLambda never rejects or throws: for every handler behaviour the
\* call eventually resolves with a result value.
C6_NeverRejects ==
    /\ [](pc # "rejected")
    /\ <>(pc = "returned" /\ output # NoOutput)

\* C6 witness: the handler threw or rejected and the call resolved with a
\* failure value
C6_Witness ==
    /\ pc = "returned"
    /\ first.mech \in {"throw", "promiseReject"}
    /\ output.success = FALSE

\* C7: a handler that returns a Promise and raises no earlier signal settles
\* the invocation by that Promise: Success with the resolved value, or Failure
\* with the rejection reason and timeout = false.
C7_AwaitableSettles ==
    pc = "returned" =>
        /\ first.mech = "promiseResolve" => output = SuccessOf(first.result)
        /\ first.mech = "promiseReject" => output = FailureOf(first.error, FALSE)

\* C8 (as stated): a handler that returns a plain value and uses neither the
\* callback nor a context method obtains Success carrying the returned value.
C8_ReturnValueSettles ==
    (pc = "returned" /\ returned.how = "value" /\ nsig = 0) =>
        output = SuccessOf(returned.value)

\* C8 (amended): returning a plain value is not a completion signal. While the
\* handler has returned a plain value and has used neither the callback nor a
\* context method, only the timer settles the invocation, and the result is
\* Failure{error: undefined, timeout: true}.
C8_ReturnValueIsNoSignal ==
    (returned.how = "value" /\ nsig = 0) =>
        /\ promiseSettled => first.mech = "timer"
        /\ pc = "returned" => output = FailureOf(JsUndefined, TRUE)

\* C8 witness: a handler returned a plain value, raised nothing, and the call
\* returned
C8_Witness ==
    /\ pc = "returned"
    /\ returned = [how |-> "value", value |-> ResultValue]
    /\ nsig = 0

\* C9: callback(error, result) and context.done(error, result), when first,
\* give Failure{error, timeout = false} when an error is passed and
\* Success{result} otherwise; context.succeed(result) gives Success{result}.
C9_CallbackAndLegacy ==
    pc = "returned" =>
        /\ first.mech \in {"callback", "done"} =>
              IF first.error \notin {JsUndefined, JsNull}
              THEN output = FailureOf(first.error, FALSE)
              ELSE output = SuccessOf(first.result)
        /\ first.mech = "succeed" => output = SuccessOf(first.result)

\* C10: context.fail(error) as the first signal always gives a Failure result
\* with timeout = false, for every error value; never Success.
C10_FailAlwaysFails ==
    (pc = "returned" /\ first.mech = "fail") =>
        output.success = FALSE /\ output.timeout = FALSE

(***************************************************************************)
(* Properties of getMessages (checked under GmSpec).                       *)
(***************************************************************************)
\* C11: getMessages with a batchSize that is given and less than 1 rejects
\* with the validation error before any interaction with the service: no
\* receive and no delete request is issued by that call.
C11_ValidationFirst ==
    (gmHist.calls > 0 /\ batchSize.given /\ batchSize.value < 1) =>
        /\ gmPc = "rejected"
        /\ gmError = "Error"
        /\ gmHist.receives = 0
        /\ gmHist.deletes = 0
        /\ request = NoRequest

\* C11 witness: batchSize 0 was rejected while messages were in the queue
C11_Witness ==
    /\ gmPc = "rejected"
    /\ batchSize = Given(0)
    /\ gmError = "Error"
    /\ queue # {}

\* C12: with batchSize = n >= 1 getMessages returns only when exactly n
\* messages are accumulated, and never holds more than n; with no batchSize
\* it returns after exactly one receive, with the result of that receive.
C12_Accumulates ==
    /\ (batchSize.given /\ gmPc # "rejected") => Len(messages) <= batchSize.value
    /\ gmPc = "returned" =>
          IF batchSize.given
          THEN Len(messages) = batchSize.value
          ELSE gmHist.receives = 1 /\ messages = res

\* C12 witness: a batch of 11 was accumulated over several receives
C12_Witness ==
    /\ gmPc = "returned"
    /\ batchSize = Given(11)
    /\ Len(messages) = 11
    /\ gmHist.receives >= 2

\* C13: every receive requests min(10, batchSize - accumulated) messages when
\* batchSize is given and 10 otherwise, always between 1 and 10.
C13_MaxNumberOfMessages ==
    gmPc = "receiving" =>
        /\ request.op = "ReceiveMessage"
        /\ request.MaxNumberOfMessages \in 1..10
        /\ request.MaxNumberOfMessages =
              IF ~batchSize.given THEN 10
              ELSE IF batchSize.value - Len(messages) < 10
                   THEN batchSize.value - Len(messages)
                   ELSE 10

\* C13 witness: the call wants 11, holds 1 and asks for the capped 10
C13_Witness ==
    /\ gmPc = "receiving"
    /\ batchSize = Given(11)
    /\ Len(messages) = 1
    /\ request.MaxNumberOfMessages = 10

\* C14: every receive sets VisibilityTimeout to 0 and waits 20 s when a
\* batchSize is given and 0 s when it is not.
C14_VisibilityAndWait ==
    gmPc = "receiving" =>
        /\ request.VisibilityTimeout = 0
        /\ request.WaitTimeSeconds = IF batchSize.given THEN 20 ELSE 0

\* C14 witness: a second receive of a batched call, long-polling
C14_Witness ==
    /\ gmPc = "receiving"
    /\ batchSize = Given(2)
    /\ Len(messages) = 1
    /\ request.WaitTimeSeconds = 20

C16_AbortRejects ==
    gmHist.abortedInFlight =>
        /\ gmPc \in {"receiving", "deleting", "rejected"}
        /\ gmPc = "rejected" => gmError = "AbortError"

\* C16 witness: a call that had accumulated a message was aborted in flight
\* and rejected with AbortError
C16_Witness ==
    /\ gmHist.abortedInFlight
    /\ gmPc = "rejected"
    /\ gmError = "AbortError"
    /\ Len(messages) >= 1

(***************************************************************************)
(* Properties of upsertQueue (checked under UqSpec).                       *)
(***************************************************************************)
\* the queue of the current call, as it was when the call began
QueueBefore == uqHist.before[command.QueueName]

\* the recognized attributes of the existing queue differ from the defaults
\* merged with the requested attributes
AttributesDiffer ==
    Restrict(QueueBefore.attrs, AttributeNames) #
        Restrict(Assign(DEFAULT_ATTRIBUTES, command.Attributes), AttributeNames)

UpsertEnded == uqHist.calls > 0 /\ uqPc \in {"returned", "rejected"}

\* C17: upsertQueue on a name for which no queue exists issues exactly one
\* create and no delete, and when it returns the queue exists with the
\* requested attributes and the returned URL is the URL of that queue.
C17_CreatesMissingQueue ==
    (uqHist.calls > 0 /\ ~QueueBefore.exists) =>
        /\ uqHist.mutations \in {<<>>, <<"create">>}
        /\ uqPc = "returned" =>
              /\ uqHist.mutations = <<"create">>
              /\ queues[command.QueueName].exists
              /\ \A k \in DOMAIN command.Attributes :
                    /\ k \in DOMAIN queues[command.QueueName].attrs
                    /\ queues[command.QueueName].attrs[k] = command.Attributes[k]
              /\ queueUrl = UrlOf(command.QueueName)

\* C17 witness: a missing queue was created with DelaySeconds 5
C17_Witness ==
    /\ uqPc = "returned"
    /\ ~QueueBefore.exists
    /\ command.Attributes = [DelaySeconds |-> "5"]
    /\ queues[command.QueueName].exists

\* C18: upsertQueue is idempotent. When a call that returned is followed by a
\* call with the identical request and no request of the second call fails in
\* the service, the second call issues no create and no delete and returns
\* the same URL.
C18_Idempotent ==
    (/\ uqHist.calls = 2
     /\ uqHist.previous.outcome = "returned"
     /\ uqHist.previous.command = command
     /\ uqHist.previous.force = force
     /\ uqError # "ServiceError") =>
        /\ uqHist.mutations = <<>>
        /\ uqPc # "rejected"
        /\ uqPc = "returned" => queueUrl = uqHist.previous.queueUrl

\* C19: upsertQueue on an existing queue whose attributes differ from the
\* request, with force unset or false, issues no delete and no create, leaves
\* the queues as they were, and ends by rejecting with QueueNameExists (unless
\* a read of the queue failed in the service).
C19_ConflictWithoutForce ==
    (uqHist.calls > 0 /\ QueueBefore.exists /\ AttributesDiffer /\ ~force) =>
        /\ uqHist.mutations = <<>>
        /\ queues = uqHist.before
        /\ uqPc # "returned"
        /\ (uqPc = "rejected" /\ uqError # "ServiceError") =>
              uqError = "QueueNameExists"

\* C19 witness: an existing queue with DelaySeconds 5 met a request for the
\* defaults without force, and the call rejected with QueueNameExists
C19_Witness ==
    /\ uqPc = "rejected"
    /\ uqError = "QueueNameExists"
    /\ ~force
    /\ QueueBefore = CreatedQueue([DelaySeconds |-> "5"])
    /\ command.Attributes = EmptyAttributes

\* C20: upsertQueue on an existing queue whose attributes differ from the
\* request, with force = true, issues the delete and then the create, in this
\* order, and when it returns the URL is that of a queue whose attributes
\* match the new request.
C20_ForceRecreates ==
    (uqHist.calls > 0 /\ QueueBefore.exists /\ AttributesDiffer /\ force) =>
        /\ uqHist.mutations \in {<<>>, <<"delete">>, <<"delete", "create">>}
        /\ uqPc = "returned" =>
              /\ uqHist.mutations = <<"delete", "create">>
              /\ queueUrl = UrlOf(command.QueueName)
              /\ queues[command.QueueName].exists
              /\ Restrict(queues[command.QueueName].attrs, AttributeNames) =
                    Restrict(Assign(DEFAULT_ATTRIBUTES, command.Attributes),
                             AttributeNames)

\* C20 witness: a queue with a policy was re-created with DelaySeconds 5
C20_Witness ==
    /\ uqPc = "returned"
    /\ force
    /\ QueueBefore = CreatedQueue([Policy |-> "policy"])
    /\ command.Attributes = [DelaySeconds |-> "5"]
    /\ queues[command.QueueName] = CreatedQueue([DelaySeconds |-> "5"])

\* C21: the attribute comparison ignores attributes outside the recognized
\* set. When the queue exists and its recognized attributes equal the defaults
\* merged with the request, restricted to the recognized names, the call takes
\* the no-op path: no delete, no create, no rejection (unless a read of the
\* queue failed in the service), whatever other attributes the request has.
C21_IgnoresUnrecognized ==
    (/\ uqHist.calls > 0
     /\ QueueBefore.exists
     /\ ~AttributesDiffer
     /\ uqError # "ServiceError") =>
        /\ uqHist.mutations = <<>>
        /\ uqPc # "rejected"
        /\ queues = uqHist.before

(***************************************************************************)
(* Properties of the client cache (checked under CcSpec).                  *)
(***************************************************************************)
\* C22: over any interleaving of concurrent SqsHelper operations at most one
\* SQSClient is constructed per endpoint, every operation in flight on an
\* endpoint holds the client cached for it, and a cache entry, once set, is
\* never replaced or removed.
C22_OneClientPerEndpoint ==
    /\ [](/\ \A e \in Endpoints : ccHist.made[e] <= 1
          /\ \A c \in Callers :
                ops[c] # NoOp =>
                    /\ ops[c].client # NoClient
                    /\ ops[c].client = clients[ops[c].endpoint])
    /\ [][\A e \in Endpoints :
             clients[e] # NoClient => clients'[e] = clients[e]]_vars

\* C22 witness: three operations are in flight at once, two on one endpoint
\* sharing its client and one on the other endpoint
C22_Witness ==
    /\ \A c \in Callers : ops[c] # NoOp
    /\ ops["caller1"].endpoint = ops["caller2"].endpoint
    /\ ops["caller1"].client = ops["caller2"].client
    /\ ops["caller3"].endpoint # ops["caller1"].endpoint
    /\ ops["caller1"].op # ops["caller2"].op

(***************************************************************************)
(* Properties of runSqsLambda (checked under RlSpec).                      *)
(***************************************************************************)
\* the run has taken the outcome of its last getMessages call
PollSeen == rlHist.polls > 0 /\ rlPc # "polling"

\* C23: when the getMessages call of an iteration rejected with AbortError and
\* the run has taken that outcome, the run is resolved, without an error, and
\* the handler was not invoked for that iteration.
C23_CancelledPollEndsRun ==
    (PollSeen /\ gmPc = "rejected" /\ gmError = "AbortError") =>
        /\ rlPc = "resolved"
        /\ rlError = "none"
        /\ rlHist.invokes = rlHist.polls - 1
        /\ pc = "start"

\* C23 witness: the run invoked the handler once and its second poll was
\* cancelled in flight
C23_Witness ==
    /\ rlPc = "resolved"
    /\ gmPc = "rejected"
    /\ gmError = "AbortError"
    /\ gmHist.abortedInFlight
    /\ rlHist.invokes = 1
    /\ rlHist.polls = 2

\* C24: when the getMessages call of an iteration rejected with an error that
\* is not a cancellation and the run has taken that outcome, the run is
\* rejected with that error, the handler was not invoked for that iteration,
\* and no receive is in flight.
C24_ReceiveFailureIsFatal ==
    (PollSeen /\ gmPc = "rejected" /\ gmError # "AbortError") =>
        /\ rlPc = "rejected"
        /\ rlError = gmError
        /\ rlHist.invokes = rlHist.polls - 1
        /\ pc = "start"

\* C24 witness: after one invocation the second poll failed in the service
C24_Witness ==
    /\ rlPc = "rejected"
    /\ rlError = "ServiceError"
    /\ rlHist.invokes = 1
    /\ rlHist.polls = 2

C26_TwoWaysToEnd ==
    /\ rlPc = "resolved" => abortSignal = "aborted"
    /\ rlPc = "rejected" =>
          /\ rlHist.polls > 0
          /\ gmPc = "rejected"
          /\ gmError # "AbortError"
          /\ rlError = gmError

\* C26 (amended): the run resolves only after the abort signal was triggered,
\* and it rejects only with the failure of the name lookup, before any
\* receive, or with the non-cancellation failure of a receive.
C26_ThreeWaysToEnd ==
    /\ rlPc = "resolved" => abortSignal = "aborted"
    /\ rlPc = "rejected" =>
          \/ /\ rlHist.polls = 0
             /\ rlQueue.by = "name"
             /\ rlError \in {"QueueDoesNotExist", "ServiceError"}
          \/ /\ rlHist.polls > 0
             /\ gmPc = "rejected"
             /\ gmError # "AbortError"
             /\ rlError = gmError

\* C26 witness: the name lookup failed and the run rejected before any poll
C26_Witness ==
    /\ rlPc = "rejected"
    /\ rlError = "QueueDoesNotExist"
    /\ rlHist.polls = 0
    /\ rlHist.lookups = 1

\* C30: the run looks the queue name up exactly once, before the first
\* getMessages, and never looks a URL up; every getMessages of the run and
\* every request it sends carry the URL so resolved.
C30_UrlResolvedOnce ==
    /\ rlHist.lookups = IF rlPc # "idle" /\ rlQueue.by = "name" THEN 1 ELSE 0
    /\ rlPc = "getQueueUrl" => rlHist.polls = 0
    /\ rlHist.polls > 0 =>
          /\ rlQueueUrl = IF rlQueue.by = "name" THEN UrlOf(rlQueue.name)
                                                 ELSE rlQueue.url
          /\ gmQueueUrl = rlQueueUrl
          /\ InFlight => request.QueueUrl = rlQueueUrl

\* C30 witness: a run on a queue given by name is in its second poll
C30_Witness ==
    /\ rlQueue.by = "name"
    /\ rlHist.lookups = 1
    /\ rlHist.polls = 2
    /\ gmPc = "receiving"
    /\ request.QueueUrl = UrlOf("orders")

(***************************************************************************)
(* Blocking of getMessages (checked under GmSpec).                         *)
(***************************************************************************)
\* C27: getMessages with batchSize = n does not return while fewer than n
\* messages have arrived: the batch it returns consists of n messages of the
\* queue, all different.
C27_BlocksUntilSatisfied ==
    (gmPc = "returned" /\ batchSize.given) =>
        /\ Len(messages) = batchSize.value
        /\ Cardinality(SeqToSet(messages)) = batchSize.value
        /\ sent >= batchSize.value

(***************************************************************************)
(* Properties of clearSqsQueue (checked under CqSpec and CqLiveSpec).      *)
(***************************************************************************)
\* C28: clearSqsQueue with purge set issues exactly one PurgeQueue request
\* and no receive and no delete request.
C28_PurgeOnly ==
    (cqHist.calls > 0 /\ purge) =>
        /\ cqHist.purges = 1
        /\ cqHist.receives = 0
        /\ cqHist.deletes = 0
        /\ cqPc \in {"purging", "returned", "rejected"}
        /\ cqRequest = [op |-> "PurgeQueue", QueueUrl |-> UrlOf("orders")]

\* C28 witness: a purge of a queue that held eleven messages returned
C28_Witness ==
    /\ cqPc = "returned"
    /\ purge
    /\ Cardinality(cqHist.queueAtStart) = 11
    /\ queue = {}

\* the receive / delete loop of a call without purge: short polls of up to 10
\* messages, a delete of exactly the messages of each non-empty receive before
\* the next receive, and the return exactly after an empty receive
ClearLoopShape ==
    (cqHist.calls > 0 /\ ~purge) =>
        /\ cqHist.purges = 0
        /\ cqPc = "receiving" =>
              /\ cqRequest.op = "ReceiveMessage"
              /\ cqRequest.MaxNumberOfMessages = 10
              /\ cqRequest.WaitTimeSeconds = 0
              /\ cqHist.receives > 1 => Len(cqRes) > 0
        /\ cqPc = "deleting" =>
              /\ Len(cqRes) > 0
              /\ cqRequest.op = "DeleteMessageBatch"
              /\ cqRequest.Entries = cqRes
        /\ cqPc \in {"receiving", "returned"} => cqHist.received \cap queue = {}
        /\ cqPc = "returned" => cqRes = <<>>

ClearTerminates ==
    (cqPc \in {"receiving", "deleting"}) ~> (cqPc \in {"returned", "rejected"})

C37_NoDuplicates ==
    Cardinality(SeqToSet(messages)) = Len(messages)

(***************************************************************************)
(* Failure of upsertQueue (checked under UqSpec).                          *)
(***************************************************************************)
\* C39: a failing upsertQueue leaves the queue as it was. Whenever the call
\* rejects, with any error and on any path (force = true included), a queue
\* that existed under the requested name before the call still exists with
\* unchanged attributes.
C39_FailureLeavesQueue ==
    (uqPc = "rejected" /\ QueueBefore.exists) =>
        queues[command.QueueName] = QueueBefore

\* C39 as amended: a rejecting upsertQueue that has not sent the DeleteQueue
\* request leaves an existing queue of the requested name as it was, and with
\* force unset or false no call sends the DeleteQueue request.
C39_FailureBeforeDeleteLeavesQueue ==
    /\ (/\ uqPc = "rejected"
        /\ QueueBefore.exists
        /\ \A i \in DOMAIN uqHist.mutations : uqHist.mutations[i] # "delete") =>
           queues[command.QueueName] = QueueBefore
    /\ (uqHist.calls > 0 /\ QueueBefore.exists /\ ~force) =>
           \A i \in DOMAIN uqHist.mutations : uqHist.mutations[i] # "delete"

\* C39 witness: a call with force set on an existing queue was rejected by a
\* failure of the service before any delete was sent
C39_Witness ==
    /\ uqPc = "rejected"
    /\ uqError = "ServiceError"
    /\ force
    /\ QueueBefore.exists
    /\ uqHist.mutations = <<>>

(***************************************************************************)
(* Properties of toSqsEvent (checked under EvSpec).                        *)
(***************************************************************************)
\* the number of a character in the base64 alphabet, 0..63
Base64Index(c) == (CHOOSE i \in 1..64 : Base64Alphabet[i] = c) - 1

\* the bytes that a group of four base64 characters stands for
Base64GroupBytes(g) ==
    LET a == Base64Index(g[1])
        b == Base64Index(g[2])
    IN IF g[3] = "=" THEN <<a * 4 + b \div 16>>
       ELSE LET c == Base64Index(g[3]) IN
            IF g[4] = "=" THEN <<a * 4 + b \div 16, (b % 16) * 16 + c \div 4>>
            ELSE <<a * 4 + b \div 16, (b % 16) * 16 + c \div 4,
                   (c % 4) * 64 + Base64Index(g[4])>>

RECURSIVE Base64Decode(_)
Base64Decode(text) ==
    IF Len(text) = 0 THEN <<>>
    ELSE Base64GroupBytes(SubSeq(text, 1, 4))
            \o Base64Decode(SubSeq(text, 5, Len(text)))

\* text is well-formed base64 (groups of four characters of the alphabet,
\* padded at the end only) and stands for the bytes
IsBase64Of(text, bytes) ==
    /\ Len(text) % 4 = 0
    /\ \A i \in 1..Len(text) :
          \/ \E j \in 1..64 : Base64Alphabet[j] = text[i]
          \/ /\ text[i] = "="
             /\ i > Len(text) - 2
             /\ i < Len(text) => text[i + 1] = "="
    /\ Base64Decode(text) = bytes

\* the property `to` of the result equals the property `from` of the source,
\* and is missing when the source has none
PassesThrough(source, from, result, to) ==
    IF from \in DOMAIN source
    THEN to \in DOMAIN result /\ result[to] = source[from]
    ELSE to \notin DOMAIN result

\* the entry of messageAttributes agrees with the message attribute value
AttributeConverted(v, a) ==
    /\ a.dataType = v.DataType
    /\ PassesThrough(v, "StringValue", a, "stringValue")
    /\ PassesThrough(v, "StringListValues", a, "stringListValues")
    /\ IF "BinaryValue" \in DOMAIN v
       THEN /\ "binaryValue" \in DOMAIN a
            /\ IsBase64Of(a.binaryValue, v.BinaryValue)
       ELSE "binaryValue" \notin DOMAIN a
    /\ IF "BinaryListValues" \in DOMAIN v
       THEN /\ "binaryListValues" \in DOMAIN a
            /\ DOMAIN a.binaryListValues = DOMAIN v.BinaryListValues
            /\ \A i \in DOMAIN v.BinaryListValues :
                  IsBase64Of(a.binaryListValues[i], v.BinaryListValues[i])
       ELSE "binaryListValues" \notin DOMAIN a

\* C31: toSqsEvent yields one record per input message, in the order of the
\* messages; the body, message id, receipt handle and system attributes of a
\* record are those of its message; every message attribute keeps its
\* data-type tag, its string value and string list are passed through, and
\* its binary value and binary list are carried as their base64 text.
C31_RecordPerMessage ==
    evPc = "returned" =>
        LET ms == evInput.messages
            rs == evOutput.event.Records
        IN /\ DOMAIN rs = DOMAIN ms
           /\ \A i \in DOMAIN ms :
                 /\ rs[i].body = ms[i].Body
                 /\ rs[i].messageId = ms[i].MessageId
                 /\ rs[i].receiptHandle = ms[i].ReceiptHandle
                 /\ PassesThrough(ms[i], "Attributes", rs[i], "attributes")
                 /\ IF "MessageAttributes" \in DOMAIN ms[i]
                    THEN /\ DOMAIN rs[i].messageAttributes =
                               DOMAIN ms[i].MessageAttributes
                         /\ \A k \in DOMAIN ms[i].MessageAttributes :
                               AttributeConverted(ms[i].MessageAttributes[k],
                                                  rs[i].messageAttributes[k])
                    ELSE DOMAIN rs[i].messageAttributes = {}

\* C31 witness: two different messages were converted, the first with a binary
\* attribute of one byte ("b", which is "Yg==" in base64) and the second with
\* a string attribute
C31_Witness ==
    /\ evPc = "returned"
    /\ Len(evInput.messages) = 2
    /\ evInput.messages[1] =
          Message(2, [MessageAttributes |->
                         [attribute |-> [DataType |-> "Binary", BinaryValue |-> <<98>>]]])
    /\ evInput.messages[2] =
          Message(1, [MessageAttributes |->
                         [attribute |-> [DataType |-> "String", StringValue |-> "string"]]])
    /\ evOutput.event.Records[1].messageId = 2
    /\ evOutput.event.Records[1].messageAttributes.attribute.binaryValue =
          <<"Y", "g", "=", "=">>
    /\ evOutput.event.Records[2].messageAttributes.attribute.stringValue = "string"

(***************************************************************************)
(* Cancellation of a run (checked under RlSpec and RlLiveSpec).            *)
(***************************************************************************)
\* the abort signal is triggered while the run is in its loop: a receive or a
\* delete is in flight, getMessages has returned the batch, or the handler
\* invocation is in progress
AbortedInLoop ==
    /\ abortSignal = "aborted"
    /\ \/ rlPc = "polling" /\ (InFlight \/ gmPc = "returned")
       \/ rlPc = "invoking"

\* C34: once the abort signal is triggered during a run, in a receive, a
\* delete or a handler invocation, the run eventually ends by resolving
\* without error, also when the handler never signals completion.
C34_AbortEndsRun == AbortedInLoop ~> (rlPc = "resolved" /\ rlError = "none")

\* C34 witness: the signal was triggered during an invocation whose handler
\* never signalled completion; the timer settled it and the run resolved
C34_Witness ==
    /\ rlPc = "resolved"
    /\ rlError = "none"
    /\ abortSignal = "aborted"
    /\ rlHist.abortedInvoking
    /\ logged.level = "error"
    /\ logged.timeout

\* C33: cancellation is observed only by the send in flight or by the next
\* loop test. Once the signal is triggered, at most one further handler
\* invocation begins, and an invocation in progress at the trigger is not
\* interrupted: the run stays in it until invokeLambda returns, reports its
\* outcome and only then resolves at the loop test.
C33_AbortNotInterrupting ==
    /\ rlHist.invokesAfterAbort <= 1
    /\ rlHist.abortedInvoking =>
          \/ rlPc = "invoking" /\ rlHist.logs + 1 = rlHist.invokes
          \/ /\ rlPc = "resolved"
             /\ rlHist.logs = rlHist.invokes
             /\ logged.level # "none"
             /\ ~rlHist.cancelled

\* C33 witness: the signal was triggered during the first invocation, the
\* handler then completed successfully, the success was reported and the
\* run resolved
C33_Witness ==
    /\ rlPc = "resolved"
    /\ rlHist.abortedInvoking
    /\ rlHist.invokes = 1
    /\ rlHist.logs = 1
    /\ logged.level = "info"

(***************************************************************************)
(* Messages and events of a run (checked under RlSpec).                    *)
(***************************************************************************)
\* the messages that have left the queue
Deleted == (1..sent) \ queue

RunEnded == rlPc \in {"resolved", "rejected"}

\* C35: every message that the run deletes from the queue is in the event of
\* a handler invocation of the run: when the run has ended, by cancellation
\* or by a fatal failure, no message has left the queue without having been
\* handed to the handler.
C35_DeletedWereHanded ==
    RunEnded => Deleted \subseteq rlHist.handed

\* C36: every handler invocation of a run receives an event with exactly
\* batchSize records, never an empty or a partially filled batch.
C36_FullBatch ==
    rlHist.invokes > 0 =>
        /\ rlBatchSize.given
        /\ rlBatchSize.value >= 1
        /\ Len(rlEvent.event.Records) = rlBatchSize.value

\* C36 witness: a batch of two messages, accumulated by two receives, is
\* handed to the handler
C36_Witness ==
    /\ rlPc = "invoking"
    /\ rlBatchSize = Given(2)
    /\ gmHist.receives = 2
    /\ Len(rlEvent.event.Records) = 2
    /\ rlEvent.event.Records[1].messageId # rlEvent.event.Records[2].messageId

\* C38: handler executions of a run never overlap. While the handler code of
\* an invocation that invokeLambda has returned from is still executing, the
\* run has no receive in flight and no further invocation in progress.
C38_NoOverlap ==
    lateHandler => rlPc \notin {"polling", "invoking"}

\* C40: in every event the run passes to the handler, the queue-name
\* component of the eventSourceARN of each record is the name of the queue
\* that the run polls.
C40_ArnNamesQueue ==
    rlHist.invokes > 0 =>
        \A i \in DOMAIN rlEvent.event.Records :
            rlEvent.event.Records[i].eventSourceARN[6] = rlQueueUrl[2]

(***************************************************************************)
(* The remaining time of an invocation (checked under CtSpec).             *)
(***************************************************************************)
\* C32: getRemainingTimeInMillis returns timeout * 1000 minus the time elapsed
\* since the invocation started: no query returns more than timeout * 1000,
\* and of two successive queries within one invocation the later does not
\* return more than the earlier.
C32_RemainingTimeDecreases ==
    /\ ctHist.queries >= 1 => ctHist.last <= ctTimeout * MsPerSecond
    /\ ctHist.queries >= 2 => ctHist.last <= ctHist.previous

====
